---- MODULE Spec2Model ----
(***************************************************************************)
(* A model of codefeed (src/src/index.ts): the analysis pipeline of        *)
(* runAnalysis and the pure helpers it is built from.                      *)
(*                                                                         *)
(* Text is a sequence of one-character strings, so that the regular        *)
(* expressions of the source are modelled on characters.                   *)
(***************************************************************************)
EXTENDS Integers, Sequences, FiniteSets, TLC

VARIABLES
    \* the position of the run (or of a call of a pure function)
    pc,
    \* a call of a function on its own: its arguments and its result
    call, ret,
    \* the locals of summarizeChanges
    chunks, chunkIdx, chunkSummaries,
    \* the repository: HEAD, the since point the reflog of origin/<branch>
    \* yields, the branch checked out
    head, sincePoint, currentBranch,
    \* the files of .codefeed: the reports of analyses/, heuristics.json; and
    \* the wall clock that stamps the reports
    store, heuristicsFile, clock,
    \* doAnalysis: the in-progress flag and the options of the run
    isAnalyzing, options,
    \* process.env.GEMINI_API_KEY: whether the provider credential is set
    geminiApiKey,
    \* the locals of runAnalysis
    branches, branchIdx, from, to, oldHeuristics, heuristics, batches, batchIdx,
    attempt, allFileSummaries, branchSummaries,
    \* the provider call made last and the number of calls of the function
    \* in progress; the messages logged by the run
    lastCall, nCalls, console,
    \* the asynchronous operations runAnalysis has started that have not
    \* settled: provider calls and reads of file diffs
    pending,
    \* history: the runs ended, whether one of them was forced, and the
    \* changes made to the repository
    runs, everForced, changes

summarizeVars == <<chunks, chunkIdx, chunkSummaries>>
pureVars == <<call, ret, summarizeVars>>
vars == <<pc, call, ret, chunks, chunkIdx, chunkSummaries, head, sincePoint, currentBranch, store, heuristicsFile, clock,
          isAnalyzing, options, branches, branchIdx, from, to, oldHeuristics, heuristics,
          batches, batchIdx, attempt, allFileSummaries, branchSummaries, lastCall, nCalls,
          console, pending, runs, everForced, changes, geminiApiKey>>

(***************************************************************************)
(* Generic helpers on sequences.                                           *)
(***************************************************************************)
Range(s) == {s[i] : i \in 1..Len(s)}

SeqsUpTo(S, n) == UNION {[1..k -> S] : k \in 0..n}

RECURSIVE Concat(_)
Concat(ss) == IF ss = <<>> THEN <<>> ELSE Head(ss) \o Concat(Tail(ss))

\* Array.prototype.filter
RECURSIVE Filter(_, _)
Filter(s, keep) ==
    IF s = <<>> THEN <<>>
    ELSE IF Head(s) \in keep THEN <<Head(s)>> \o Filter(Tail(s), keep)
         ELSE Filter(Tail(s), keep)

\* The insertion order of a JavaScript Set built from a list: the first
\* occurrence of each element, in order.
RECURSIVE Dedup(_)
Dedup(s) ==
    IF s = <<>> THEN <<>>
    ELSE LET init == Dedup(SubSeq(s, 1, Len(s) - 1))
             last == s[Len(s)]
         IN IF last \in Range(init) THEN init ELSE Append(init, last)

(***************************************************************************)
(* ContextChunker: estimateTokens and splitDiffIntoChunks.                 *)
(***************************************************************************)
NL == "\n"
CR == "\r"

\* The line terminators of a JavaScript regular expression that can occur in
\* the modelled texts.
IsLineTerminator(c) == c \in {NL, CR}

\* Math.ceil(text.length / 4)
CharsPerToken == 4
estimateTokens(text) == (Len(text) + CharsPerToken - 1) \div CharsPerToken

\* The end of the line that holds position q (1-based): the first position
\* at or after q that is the end of the text or holds a line terminator.
RECURSIVE LineEnd(_, _)
LineEnd(s, q) ==
    IF q > Len(s) \/ IsLineTerminator(s[q]) THEN q ELSE LineEnd(s, q + 1)

\* The lookahead (?=^@@.*@@$) with the m flag, tried at position q: q starts
\* a line, and the line from q to its end starts with @@ and ends with @@
\* ('.' matches no line terminator, '$' matches only at a line's end).
HeaderAtMissingEnd(s, q) ==
    /\ q <= Len(s)
    /\ (q = 1 \/ IsLineTerminator(s[q - 1]))
    /\ LineEnd(s, q) - q >= 2
    /\ s[q] = "@" /\ s[q + 1] = "@"

HeaderAt(s, q) ==
    /\ q <= Len(s)
    /\ (q = 1 \/ IsLineTerminator(s[q - 1]))
    /\ LET e == LineEnd(s, q)
       IN /\ e - q >= 4
          /\ s[q] = "@" /\ s[q + 1] = "@"
          /\ s[e - 2] = "@" /\ s[e - 1] = "@"

\* String.prototype.split with a separator that matches the empty string:
\* p is the start of the piece being built. A match at p itself is skipped;
\* the first match after p ends the piece there, and the text left after the
\* last match is the last piece.
RECURSIVE SplitLoop(_, _)
SplitLoop(s, p) ==
    LET matches == {q \in (p + 1)..Len(s) : HeaderAt(s, q)}
    IN IF matches = {} THEN <<SubSeq(s, p, Len(s))>>
       ELSE LET q == CHOOSE m \in matches : \A r \in matches : m <= r
            IN <<SubSeq(s, p, q - 1)>> \o SplitLoop(s, q)

\* diff.split(/(?=^@@.*@@$)/m): the empty text gives one empty piece.
SplitHunks(diff) == IF diff = <<>> THEN << <<>> >> ELSE SplitLoop(diff, 1)

RECURSIVE ChunkLoopDropsLast(_, _, _, _)
ChunkLoopDropsLast(hunks, maxTokens, acc, currentChunk) ==
    IF hunks = <<>>
    THEN acc
    ELSE LET hunk == Head(hunks)
         IN IF estimateTokens(currentChunk) + estimateTokens(hunk) > maxTokens
               /\ currentChunk # <<>>
            THEN ChunkLoopDropsLast(Tail(hunks), maxTokens, Append(acc, currentChunk), hunk)
            ELSE ChunkLoopDropsLast(Tail(hunks), maxTokens, acc, currentChunk \o hunk)

RECURSIVE ChunkLoopIgnoresCurrent(_, _, _, _)
ChunkLoopIgnoresCurrent(hunks, maxTokens, acc, currentChunk) ==
    IF hunks = <<>>
    THEN IF currentChunk # <<>> THEN Append(acc, currentChunk) ELSE acc
    ELSE LET hunk == Head(hunks)
         IN IF estimateTokens(hunk) > maxTokens /\ currentChunk # <<>>
            THEN ChunkLoopIgnoresCurrent(Tail(hunks), maxTokens,
                                         Append(acc, currentChunk), hunk)
            ELSE ChunkLoopIgnoresCurrent(Tail(hunks), maxTokens, acc,
                                         currentChunk \o hunk)

\* The loop of splitDiffIntoChunks over the hunks left, with the chunks (acc)
\* pushed so far and the chunk being built.
RECURSIVE ChunkLoop(_, _, _, _)
ChunkLoop(hunks, maxTokens, acc, currentChunk) ==
    IF hunks = <<>>
    THEN IF currentChunk # <<>> THEN Append(acc, currentChunk) ELSE acc
    ELSE LET hunk == Head(hunks)
             hunkTokens == estimateTokens(hunk)
             currentTokens == estimateTokens(currentChunk)
         IN IF currentTokens + hunkTokens > maxTokens /\ currentChunk # <<>>
            THEN ChunkLoop(Tail(hunks), maxTokens, Append(acc, currentChunk), hunk)
            ELSE ChunkLoop(Tail(hunks), maxTokens, acc, currentChunk \o hunk)

splitDiffIntoChunks(diff, maxTokens) ==
    ChunkLoop(SplitHunks(diff), maxTokens, <<>>, <<>>)

(***************************************************************************)
(* BatchPlanner: createSmartBatches.                                       *)
(***************************************************************************)
RECURSIVE GroupLoopKeepsRemaining(_, _, _)
GroupLoopKeepsRemaining(groups, acc, remainingFiles) ==
    IF groups = <<>> THEN <<acc, remainingFiles>>
    ELSE LET batch == Filter(Head(groups), Range(remainingFiles))
         IN IF Len(batch) > 1
            THEN GroupLoopKeepsRemaining(Tail(groups), Append(acc, batch), remainingFiles)
            ELSE GroupLoopKeepsRemaining(Tail(groups), acc, remainingFiles)

\* The first loop: one batch per learned group with more than one file left.
\* The result is <<batches, remainingFiles>>: acc holds the batches pushed so
\* far, remainingFiles the Set in its insertion order.
RECURSIVE GroupLoop(_, _, _)
GroupLoop(groups, acc, remainingFiles) ==
    IF groups = <<>> THEN <<acc, remainingFiles>>
    ELSE LET batch == Filter(Head(groups), Range(remainingFiles))
         IN IF Len(batch) > 1
            THEN GroupLoop(Tail(groups), Append(acc, batch),
                           Filter(remainingFiles, Range(remainingFiles) \ Range(batch)))
            ELSE GroupLoop(Tail(groups), acc, remainingFiles)

\* The inner loop that deletes no file from remainingFiles.
RECURSIVE CommitFilesLoopKeepsRemaining(_, _, _)
CommitFilesLoopKeepsRemaining(commitFiles, taken, remainingFiles) ==
    IF commitFiles = <<>> THEN <<taken, remainingFiles>>
    ELSE LET file == Head(commitFiles)
         IN IF file \in Range(remainingFiles)
            THEN CommitFilesLoopKeepsRemaining(Tail(commitFiles), Append(taken, file),
                                               remainingFiles)
            ELSE CommitFilesLoopKeepsRemaining(Tail(commitFiles), taken, remainingFiles)

\* The inner loop over one commit's files: a file still remaining is pushed
\* on the commit's list and deleted from remainingFiles at once.
RECURSIVE CommitFilesLoop(_, _, _)
CommitFilesLoop(commitFiles, taken, remainingFiles) ==
    IF commitFiles = <<>> THEN <<taken, remainingFiles>>
    ELSE LET file == Head(commitFiles)
         IN IF file \in Range(remainingFiles)
            THEN CommitFilesLoop(Tail(commitFiles), Append(taken, file),
                                 Filter(remainingFiles, Range(remainingFiles) \ {file}))
            ELSE CommitFilesLoop(Tail(commitFiles), taken, remainingFiles)

\* The loop over the commits that puts each commit's batch in front.
RECURSIVE CommitLoopPushesInFront(_, _, _)
CommitLoopPushesInFront(commitHistory, acc, remainingFiles) ==
    IF commitHistory = <<>> THEN <<acc, remainingFiles>>
    ELSE LET r == CommitFilesLoop(Head(commitHistory).files, <<>>, remainingFiles)
         IN CommitLoopPushesInFront(Tail(commitHistory),
                                    IF Len(r[1]) > 0 THEN <<r[1]>> \o acc ELSE acc,
                                    r[2])

\* The loop over the commits, building commitFileMap (in insertion order;
\* commit hashes are distinct) and then pushing its non-empty values.
RECURSIVE CommitLoop(_, _, _)
CommitLoop(commitHistory, acc, remainingFiles) ==
    IF commitHistory = <<>> THEN <<acc, remainingFiles>>
    ELSE LET r == CommitFilesLoop(Head(commitHistory).files, <<>>, remainingFiles)
         IN CommitLoop(Tail(commitHistory),
                       IF Len(r[1]) > 0 THEN Append(acc, r[1]) ELSE acc,
                       r[2])

createSmartBatches(files, groups, commitHistory) ==
    LET g == GroupLoop(groups, <<>>, Dedup(files))
        c == CommitLoop(commitHistory, g[1], g[2])
    IN IF Len(c[2]) > 0 THEN Append(c[1], c[2]) ELSE c[1]

(***************************************************************************)
(* ChangeSetExtractor: getCommitHistory and getChangedFiles.               *)
(***************************************************************************)
\* The repository is a linear history of commits 1..MaxRef; a ref is the
\* number of its commit. NoRef stands for null and for the empty string.
NoRef == 0
MaxRef == 3
Refs == 1..MaxRef

\* The paths each commit changed (git log --name-status).
FilesOfCommit(k) ==
    CASE k = 2 -> <<"a.ts", "b.ts">>
      [] k = 3 -> <<"yarn.lock", "dist/x.js">>
      [] OTHER -> <<"a.ts">>

\* git.log({from, to}): the commits reachable from t and not from fr,
\* most recent first, each with the files it changed.
getCommitHistory(fr, t) ==
    IF fr < t
    THEN [k \in 1..(t - fr) |-> [hash |-> t - k + 1, files |-> FilesOfCommit(t - k + 1)]]
    ELSE <<>>

\* commitHistory.flatMap(commit => commit.files)
RECURSIVE FlatMapFiles(_)
FlatMapFiles(commitHistory) ==
    IF commitHistory = <<>> THEN <<>>
    ELSE Head(commitHistory).files \o FlatMapFiles(Tail(commitHistory))

\* The characters of the path, pattern and model names of the model.
Chars(name) ==
    CASE name = "a.ts" -> <<"a", ".", "t", "s">>
      [] name = "b.ts" -> <<"b", ".", "t", "s">>
      [] name = "z.ts" -> <<"z", ".", "t", "s">>
      [] name = "dist/x.js" -> <<"d", "i", "s", "t", "/", "x", ".", "j", "s">>
      [] name = "dist/" -> <<"d", "i", "s", "t", "/">>
      [] name = "web/yarn.lock" ->
             <<"w", "e", "b", "/", "y", "a", "r", "n", ".", "l", "o", "c", "k">>
      [] name = ".ts" -> <<".", "t", "s">>
      [] name = "" -> <<>>
      [] name = "yarn.lock" -> <<"y", "a", "r", "n", ".", "l", "o", "c", "k">>
      [] name = "gemini-pro" -> <<"g", "e", "m", "i", "n", "i", "-", "p", "r", "o">>
      [] name = "gemini" -> <<"g", "e", "m", "i", "n", "i">>
      [] name = "gpt-5" -> <<"g", "p", "t", "-", "5">>
      [] name = "GPT-4" -> <<"G", "P", "T", "-", "4">>
      [] name = "gpt" -> <<"g", "p", "t">>
      [] name = "llama" -> <<"l", "l", "a", "m", "a">>
      [] name = "package-lock.json" ->
             <<"p", "a", "c", "k", "a", "g", "e", "-", "l", "o", "c", "k",
               ".", "j", "s", "o", "n">>
      [] OTHER -> <<"?">>

\* String.prototype.includes and startsWith, on the characters
IncludesChars(f, p) == \E k \in 0..(Len(f) - Len(p)) : SubSeq(f, k + 1, k + Len(p)) = p
StartsWithChars(f, p) == Len(p) <= Len(f) /\ SubSeq(f, 1, Len(p)) = p

Includes(file, pattern) == IncludesChars(Chars(file), Chars(pattern))

BaseNoisyPatterns == <<"package-lock.json", "yarn.lock">>

\* A file is noisy when it starts with a pattern.
IsNoisyStartsWith(file, noisyPatterns) ==
    \E k \in 1..Len(noisyPatterns) :
        StartsWithChars(Chars(file), Chars(noisyPatterns[k]))

IsNoisy(file, noisyPatterns) ==
    \E k \in 1..Len(noisyPatterns) : Includes(file, noisyPatterns[k])

RECURSIVE FilterNoisy(_, _, _)
FilterNoisy(allFiles, noisyPatterns, wantNoisy) ==
    IF allFiles = <<>> THEN <<>>
    ELSE IF IsNoisy(Head(allFiles), noisyPatterns) = wantNoisy
         THEN <<Head(allFiles)>> \o FilterNoisy(Tail(allFiles), noisyPatterns, wantNoisy)
         ELSE FilterNoisy(Tail(allFiles), noisyPatterns, wantNoisy)

getChangedFiles(allFiles, extraIgnorePatterns) ==
    LET noisyPatterns == BaseNoisyPatterns \o extraIgnorePatterns
    IN [primaryFiles |-> FilterNoisy(allFiles, noisyPatterns, FALSE),
        noisyFiles |-> FilterNoisy(allFiles, noisyPatterns, TRUE)]

(***************************************************************************)
(* The text-generation provider and the parsing of its responses.          *)
(***************************************************************************)
\* What a provider call can end with: a text, or a thrown error.
\*   missing_key             Error('GEMINI_API_KEY environment variable ...')
\*   context_length_exceeded axios error, error.code context_length_exceeded
\*   token_limit             axios error, error.message mentions 'token limit'
\*   network                 any other axios error
Errors == {"missing_key", "context_length_exceeded", "token_limit", "network"}

isContextLengthErrorCodeOnly(error) == error = "context_length_exceeded"

isContextLengthError(error) == error \in {"context_length_exceeded", "token_limit"}

\* A response text: a JSON body, bare or wrapped in a fence. "json" is the
\* fence ```json ... ```, "plain" the fence ``` ... ```.
Fences == {"none", "json", "plain"}

Garbage == [json |-> "garbage"]
JsonNull == [json |-> "null"]

Text(fence, body) == [throws |-> "none", fence |-> fence, body |-> body]
Throw(error) == [throws |-> error, fence |-> "none", body |-> Garbage]

\* response.replace(/^```json\s*|```\s*$/g, '') and JSON.parse: the closing
\* fence is always removed, the opening fence only when it is ```json, so a
\* plain fence leaves text that does not parse.
JsonParse(response) ==
    IF response.fence = "plain" THEN Garbage ELSE response.body

\* JSON.parse throws on text that is no JSON; reading a property of null
\* throws a TypeError.
ParseThrows(response) == JsonParse(response).json \in {"garbage", "null"}

\* Heuristics: {ignore_patterns, file_groups}; a response object that has a
\* field missing or not an array carries isArray FALSE for it.
HeuristicsObject(ip, ipIsArray, fg, fgIsArray) ==
    [json |-> "object", ignore_patterns |-> ip, ignore_patterns_isArray |-> ipIsArray,
     file_groups |-> fg, file_groups_isArray |-> fgIsArray]

\* Only the field ignore_patterns is validated.
HeuristicsValidIgnorePatternsOnly(parsed) == parsed.ignore_patterns_isArray

\* Array.isArray(parsed.ignore_patterns) && Array.isArray(parsed.file_groups)
HeuristicsValid(parsed) ==
    parsed.ignore_patterns_isArray /\ parsed.file_groups_isArray

\* The lists of the response are added to those of the old heuristics.
AsHeuristicsUnionWithOld(parsed) ==
    [ignore_patterns |-> oldHeuristics.ignore_patterns \o parsed.ignore_patterns,
     file_groups |-> oldHeuristics.file_groups \o parsed.file_groups]

AsHeuristics(parsed) ==
    [ignore_patterns |-> parsed.ignore_patterns, file_groups |-> parsed.file_groups]

EmptyHeuristics == [ignore_patterns |-> <<>>, file_groups |-> <<>>]

\* The analysis object {highLevelSummary, fileSummaries}. hasSummary says
\* whether the field highLevelSummary is present; fileSummaries_isArray
\* whether fileSummaries is present and a list.
AnalysisObject(has, hls, fs, fsIsArray) ==
    [json |-> "object", hasSummary |-> has, highLevelSummary |-> hls,
     fileSummaries |-> fs, fileSummaries_isArray |-> fsIsArray]

\* JavaScript truthiness of parsed.highLevelSummary: absent (undefined) and
\* the empty string are falsy.
Truthy(parsed) == parsed.hasSummary /\ parsed.highLevelSummary # ""

AnalysisValidMissingTruthiness(parsed) == parsed.hasSummary /\ parsed.fileSummaries_isArray

\* parsed.highLevelSummary && Array.isArray(parsed.fileSummaries)
AnalysisValid(parsed) == Truthy(parsed) /\ parsed.fileSummaries_isArray

MAX_RETRIES == 3
MAX_RETRIES_summarizeEntireDiff == 3

RetryStepStopsEarly(o, n, maxRetries, valid) ==
    IF o.throws = "none" /\ o.fence # "plain" /\ o.body.json = "object" /\ valid
    THEN "return"
    ELSE IF n + 1 >= maxRetries THEN "giveup" ELSE "retry"

RetryStepGivesUpOnError(o, n, maxRetries, valid) ==
    IF o.throws # "none"
    THEN "giveup"
    ELSE IF ParseThrows(o)
    THEN IF n = maxRetries THEN "giveup" ELSE "retry"
    ELSE IF valid THEN "return"
         ELSE IF n + 1 <= maxRetries THEN "retry" ELSE "giveup"

\* One pass of the retry loop of updateHeuristics and of summarizeEntireDiff
\* for the provider outcome o on attempt n of maxRetries, with the validity
\* check valid: "return" the parsed object, "retry", or "giveup"
\* (the catch block on the last attempt, or the loop running out).
RetryStep(o, n, maxRetries, valid) ==
    IF o.throws # "none" \/ ParseThrows(o)
    THEN IF n = maxRetries THEN "giveup" ELSE "retry"
    ELSE IF valid THEN "return"
         ELSE IF n + 1 <= maxRetries THEN "retry" ELSE "giveup"

(***************************************************************************)
(* runAnalysis, driven by doAnalysis: one action per suspension point.     *)
(***************************************************************************)
Branches == {"main", "feat"}

\* getDefaultBranch: the HEAD branch of origin.
mainBranch == "main"

\* The number of runs a behaviour of the model holds.
MaxRuns == 2

\* The heuristics the provider may propose.
HeuristicsPool ==
    { [ignore_patterns |-> <<"dist/">>, file_groups |-> << <<"a.ts", "b.ts">> >>],
      [ignore_patterns |-> <<>>, file_groups |-> <<>>] }

\* What the provider may answer to the heuristics prompt.
HeuristicsOutcomes ==
    {Throw(e) : e \in Errors}
        \cup {Text("json", HeuristicsObject(h.ignore_patterns, TRUE, h.file_groups, TRUE)) :
                 h \in HeuristicsPool}
        \cup {Text("plain", HeuristicsObject(<<"dist/">>, TRUE, <<>>, TRUE)),
              Text("none", HeuristicsObject(<<"dist/">>, TRUE, <<>>, FALSE)),
              Text("json", JsonNull)}

SummariesFor(files) == [k \in 1..Len(files) |-> [file |-> files[k], summary |-> "s"]]

\* What the provider may answer to the analysis prompt of a batch: the
\* wanted object, one that names a file outside the batch and repeats one,
\* objects that lack a field or hold an empty summary, and text that is no
\* JSON object.
AnalysisOutcomes(batch) ==
    {Throw(e) : e \in Errors}
        \cup {Text("json", AnalysisObject(TRUE, "S", SummariesFor(batch), TRUE)),
              Text("none", AnalysisObject(TRUE, "S",
                  SummariesFor(<<"z.ts", batch[1], batch[1]>>), TRUE)),
              Text("plain", AnalysisObject(TRUE, "S", SummariesFor(batch), TRUE)),
              Text("none", AnalysisObject(TRUE, "", SummariesFor(batch), TRUE)),
              Text("none", AnalysisObject(FALSE, "", SummariesFor(batch), TRUE)),
              Text("none", AnalysisObject(TRUE, "S", <<>>, FALSE)),
              Text("none", Garbage)}

FinalOutcomes == {Throw(e) : e \in Errors} \cup {Text("none", [json |-> "text"])}

NoCall == [fn |-> "none", provider |-> "none", prompt |-> <<>>, outcome |-> Throw("none")]

\* getBranchesToAnalyze: Array.from(new Set([mainBranch, currentBranch])).
getBranchesToAnalyzeNoSet(current) == <<mainBranch, current>>

getBranchesToAnalyze(current) ==
    IF current # mainBranch THEN <<mainBranch, current>> ELSE <<mainBranch>>

\* report.branches.some(b => b.branch === branch && b.from === from && b.to === to)
\* over every report file of the analyses directory.
analysisExistsAnyBranch(reports, branch, fr, t) ==
    \E r \in 1..Len(reports) : \E k \in 1..Len(reports[r].branches) :
        LET e == reports[r].branches[k]
        IN e.from = fr /\ e.to = t

analysisExistsNever(reports, branch, fr, t) == FALSE

analysisExistsIgnoringTo(reports, branch, fr, t) ==
    \E r \in 1..Len(reports) : \E k \in 1..Len(reports[r].branches) :
        LET e == reports[r].branches[k]
        IN e.branch = branch /\ e.from = fr

analysisExists(reports, branch, fr, t) ==
    \E r \in 1..Len(reports) : \E k \in 1..Len(reports[r].branches) :
        LET e == reports[r].branches[k]
        IN e.branch = branch /\ e.from = fr /\ e.to = t

\* What runAnalysis does, without suspending, once the heuristics h of the
\* branch are known (lines 114-145 and 177-188): the duplicate check, the
\* classification of the changed files and the batch plan. The result is
\* the branch's decision: msg is the console message, entries the branch
\* entries pushed at once, batches the batches to summarize.
BranchDecision(h, force, reports, branch, fr, t) ==
    LET commitHistory == getCommitHistory(fr, t)
        changed == getChangedFiles(FlatMapFiles(commitHistory), h.ignore_patterns)
    IN IF ~force /\ Len(reports) > 0 /\ analysisExists(reports, branch, fr, t)
       THEN [msg |-> "already exists. Skipping.", entries |-> <<>>, batches |-> <<>>]
       ELSE IF Len(changed.primaryFiles) > 0
       THEN [msg |-> "changed file(s) to analyze", entries |-> <<>>,
             batches |-> createSmartBatches(changed.primaryFiles, h.file_groups, commitHistory)]
       ELSE IF Len(changed.noisyFiles) > 0
       THEN [msg |-> "No primary files to analyze.",
             entries |-> << [branch |-> branch,
                             highLevelSummary |-> "No primary files to analyze.",
                             summaries |-> <<>>,
                             noisyChanges |-> changed.noisyFiles,
                             from |-> fr, to |-> t] >>,
             batches |-> <<>>]
       ELSE [msg |-> "No new changes found.", entries |-> <<>>, batches |-> <<>>]

gitVars == <<head, sincePoint, currentBranch>>
diskVars == <<store, heuristicsFile, clock>>
loopVars == <<branches, branchIdx, from, to, oldHeuristics, heuristics, batches, batchIdx,
              attempt, allFileSummaries, branchSummaries>>
logVars == <<lastCall, nCalls, console>>
processVars == <<isAnalyzing, options, runs, everForced, changes, geminiApiKey>>

\* The state of the program before any run: an empty report store, no
\* heuristics file, no analysis in progress.
ProgramIdle ==
    /\ store = <<>>
    /\ heuristicsFile = [exists |-> FALSE, content |-> EmptyHeuristics]
    /\ clock = 1
    /\ isAnalyzing = FALSE
    /\ options = [force |-> FALSE]
    /\ runs = 0
    /\ everForced = FALSE
    /\ changes = 0
    /\ branches = <<>>
    /\ branchIdx = 1
    /\ from = NoRef
    /\ to = NoRef
    /\ oldHeuristics = EmptyHeuristics
    /\ heuristics = EmptyHeuristics
    /\ batches = <<>>
    /\ batchIdx = 1
    /\ attempt = 1
    /\ allFileSummaries = <<>>
    /\ branchSummaries = <<>>
    /\ lastCall = NoCall
    /\ nCalls = 0
    /\ console = <<>>
    /\ pending = {}
    /\ chunks = <<>>
    /\ chunkIdx = 1
    /\ chunkSummaries = <<>>

\* The repository when the program starts: HEAD is commit 2 and main is
\* checked out; main has never been pulled (no since point) or its last pull
\* brought any of the commits, the feature branch was pulled at commit 1.
GitInitial ==
    /\ head = 2
    /\ sincePoint \in {[br \in Branches |-> IF br = mainBranch THEN r ELSE 1] :
                           r \in {NoRef} \cup Refs}
    /\ currentBranch = mainBranch

Init ==
    /\ pc = "idle"
    /\ call = [fn |-> "none"]
    /\ ret = <<>>
    /\ GitInitial
    /\ geminiApiKey \in BOOLEAN
    /\ ProgramIdle

\* ---- the repository changes between runs ----
\* The number of changes of the repository a behaviour of the model holds.
MaxChanges == 1

RepositoryChange ==
    /\ pc = "idle" /\ runs < MaxRuns
    /\ changes < MaxChanges
    /\ changes' = changes + 1
    /\ UNCHANGED <<pc, pureVars, diskVars, loopVars, logVars, pending, isAnalyzing, options,
                   runs, everForced, geminiApiKey>>

\* git commit: HEAD moves to the next commit.
NewCommit ==
    /\ RepositoryChange
    /\ head < MaxRef
    /\ head' = head + 1
    /\ UNCHANGED <<sincePoint, currentBranch>>

\* git pull of a branch: the last pull line of the reflog of origin/<branch>
\* now carries the pulled commit, here HEAD.
Pull ==
    /\ RepositoryChange
    /\ \E br \in Branches :
           /\ sincePoint[br] # head
           /\ sincePoint' = [sincePoint EXCEPT ![br] = head]
    /\ UNCHANGED <<head, currentBranch>>

\* git checkout of the other branch.
Checkout ==
    /\ RepositoryChange
    /\ \E br \in Branches \ {currentBranch} : currentBranch' = br
    /\ UNCHANGED <<head, sincePoint>>

\* ---- doAnalysis and the start of runAnalysis (lines 368-375, 59-75) ----
doAnalysis ==
    /\ pc = "idle" /\ runs < MaxRuns
    /\ ~isAnalyzing
    /\ isAnalyzing' = TRUE
    /\ \E force \in BOOLEAN :
           /\ options' = [force |-> force]
           /\ everForced' = (everForced \/ force)
    /\ branches' = getBranchesToAnalyze(currentBranch)
    /\ branchSummaries' = <<>>
    /\ branchIdx' = 1
    /\ console' = <<>>
    /\ pc' = "branch"
    /\ UNCHANGED <<pureVars, gitVars, diskVars, runs, changes, geminiApiKey, from, to,
                   oldHeuristics, heuristics, batches, batchIdx, attempt, allFileSummaries,
                   lastCall, nCalls, pending>>

\* The locals of one pass of the loop over the branches go out of scope.
NextIteration ==
    /\ branchIdx' = branchIdx + 1
    /\ pc' = "branch"
    /\ from' = NoRef
    /\ to' = NoRef
    /\ oldHeuristics' = EmptyHeuristics
    /\ heuristics' = EmptyHeuristics
    /\ batches' = <<>>
    /\ batchIdx' = 1
    /\ attempt' = 1
    /\ allFileSummaries' = <<>>
    /\ nCalls' = 0

\* The branch's decision taken with the heuristics h: its message is logged,
\* its entries pushed, and the batch loop entered when there are batches.
ApplyDecision(d, branch, fr, t, h) ==
    /\ console' = Append(console, [branch |-> branch, from |-> fr, to |-> t, msg |-> d.msg])
    /\ branchSummaries' = branchSummaries \o d.entries
    /\ IF Len(d.batches) > 0
       THEN /\ pc' = "getGitDiff"
            /\ branchIdx' = branchIdx
            /\ from' = fr
            /\ to' = t
            /\ oldHeuristics' = EmptyHeuristics
            /\ heuristics' = h
            /\ batches' = d.batches
            /\ batchIdx' = 1
            /\ attempt' = 1
            /\ allFileSummaries' = <<>>
            /\ nCalls' = 0
       ELSE NextIteration

\* A branch with no since point starts at the oldest commit.
FromRefOldestCommit(sincePt, t) == IF sincePt # NoRef /\ sincePt # t THEN sincePt ELSE 1

\* let from = sincePoint && sincePoint !== to ? sincePoint : '' (line 85);
\* the empty string is NoRef.
FromRef(sincePt, t) == IF sincePt # NoRef /\ sincePt # t THEN sincePt ELSE NoRef

\* The heuristics are updated whether or not the range holds commits.
BranchBeginAlwaysUpdates ==
    /\ pc = "branch" /\ branchIdx <= Len(branches)
    /\ LET branch == branches[branchIdx]
           t == head
           sp == sincePoint[branch]
           fr == FromRef(sp, t)
           old == IF heuristicsFile.exists THEN heuristicsFile.content ELSE EmptyHeuristics
       IN IF fr = NoRef
          THEN /\ console' = Append(console, [branch |-> branch, from |-> fr, to |-> t,
                                              msg |-> "First run detected."])
               /\ NextIteration
               /\ UNCHANGED branchSummaries
          ELSE /\ pc' = "updateHeuristics"
               /\ from' = fr
               /\ to' = t
               /\ oldHeuristics' = old
               /\ attempt' = 1
               /\ nCalls' = 0
               /\ UNCHANGED <<heuristics, batches, batchIdx, allFileSummaries,
                              branchSummaries, branchIdx, console>>
    /\ UNCHANGED <<pureVars, gitVars, diskVars, processVars, branches, lastCall, pending>>

\* The top of the loop over the branches (lines 77-112): the range is
\* resolved, the commit history and the stored heuristics are read.
BranchBegin ==
    /\ pc = "branch" /\ branchIdx <= Len(branches)
    /\ LET branch == branches[branchIdx]
           t == head
           sp == sincePoint[branch]
           fr == FromRef(sp, t)
           old == IF heuristicsFile.exists THEN heuristicsFile.content ELSE EmptyHeuristics
       IN IF fr = NoRef
          THEN /\ console' = Append(console, [branch |-> branch, from |-> fr, to |-> t,
                                              msg |-> "First run detected."])
               /\ NextIteration
               /\ UNCHANGED branchSummaries
          ELSE IF Len(getCommitHistory(fr, t)) > 0
          THEN /\ pc' = "updateHeuristics"
               /\ from' = fr
               /\ to' = t
               /\ oldHeuristics' = old
               /\ attempt' = 1
               /\ nCalls' = 0
               /\ UNCHANGED <<heuristics, batches, batchIdx, allFileSummaries,
                              branchSummaries, branchIdx, console>>
          ELSE ApplyDecision(BranchDecision(old, options.force, store, branch, fr, t),
                             branch, fr, t, old)
    /\ UNCHANGED <<pureVars, gitVars, diskVars, processVars, branches, lastCall, pending>>

\* The operations runAnalysis starts and awaits: a call of the provider by
\* the function fn, and the read of the diff of the k-th file summary.
ProviderOp(fn, prompt) == [op |-> "callGeminiApi", by |-> fn, arg |-> prompt]
DiffRead(k, file) == [op |-> "getGitDiff", by |-> "runAnalysis", arg |-> <<k, file>>]

\* callGeminiApi: the provider call in progress ends with the outcome o; it
\* throws the missing-key error, and does nothing else, exactly when the
\* credential is not set (lines 826-829). The call made last is kept while
\* its function runs.
ProviderCall(fn, prompt, o) ==
    /\ (o.throws = "missing_key") <=> ~geminiApiKey
    /\ lastCall' = [fn |-> fn, provider |-> "gemini", prompt |-> prompt, outcome |-> o]
    /\ nCalls' = nCalls + 1
    /\ pending' = pending \cup {ProviderOp(fn, prompt)}

\* The awaited provider call settles: the function that made it goes on.
ProviderCallSettles == pending' = pending \ {ProviderOp(lastCall.fn, lastCall.prompt)}

\* The provider call of one attempt of updateHeuristics (line 256).
UpdateHeuristicsCall ==
    /\ pc = "updateHeuristics"
    /\ \E o \in HeuristicsOutcomes :
           ProviderCall("updateHeuristics", <<"heuristics", oldHeuristics, from, to>>, o)
    /\ pc' = "updateHeuristics.response"
    /\ UNCHANGED <<pureVars, gitVars, diskVars, processVars, loopVars, console>>

\* The rest of the attempt (lines 257-272): the response is parsed and
\* validated; when updateHeuristics returns, the heuristics file is written
\* and the branch's decision is taken (lines 107-145).
UpdateHeuristicsResponse ==
    /\ pc = "updateHeuristics.response"
    /\ LET o == lastCall.outcome
           branch == branches[branchIdx]
           step == RetryStep(o, attempt, MAX_RETRIES, HeuristicsValid(JsonParse(o)))
           h == IF step = "return" THEN AsHeuristics(JsonParse(o)) ELSE oldHeuristics
       IN IF step = "retry"
          THEN /\ attempt' = attempt + 1
               /\ pc' = "updateHeuristics"
               /\ UNCHANGED <<heuristicsFile, branchIdx, from, to, oldHeuristics, heuristics,
                              batches, batchIdx, allFileSummaries, branchSummaries, nCalls,
                              lastCall, console>>
          ELSE /\ heuristicsFile' = [exists |-> TRUE, content |-> h]
               /\ ApplyDecision(BranchDecision(h, options.force, store, branch, from, to),
                                branch, from, to, h)
               /\ lastCall' = NoCall
    /\ ProviderCallSettles
    /\ UNCHANGED <<pureVars, gitVars, store, clock, processVars, branches>>

\* The batch loop left after its first pass.
NextBatchEndsEarly(fileSummaries) ==
    /\ allFileSummaries' = fileSummaries
    /\ attempt' = 1
    /\ nCalls' = 0
    /\ pc' = "createFinalSummary" /\ batchIdx' = batchIdx

\* The end of one pass of the batch loop (line 149): the next batch, or the
\* final summary after the last one.
NextBatch(fileSummaries) ==
    /\ allFileSummaries' = fileSummaries
    /\ attempt' = 1
    /\ nCalls' = 0
    /\ IF batchIdx < Len(batches)
       THEN pc' = "getGitDiff" /\ batchIdx' = batchIdx + 1
       ELSE pc' = "createFinalSummary" /\ batchIdx' = batchIdx

\* console.warn of getGitDiff when git.diff throws (line 597).
DiffWarning == "Could not get diff"

WarnNoDiff(log) ==
    Append(log, [branch |-> branches[branchIdx], from |-> from, to |-> to, msg |-> DiffWarning])

\* One warning for each read that failed.
RECURSIVE WarnNoDiffTimes(_, _)
WarnNoDiffTimes(log, n) == IF n = 0 THEN log ELSE WarnNoDiffTimes(WarnNoDiff(log), n - 1)

\* A batch whose diff cannot be read ends the loop over the batches.
GetGitDiffNullEndsLoop ==
    /\ pc = "getGitDiff"
    /\ \E batchDiff \in {"diff", "null", ""} :
           IF batchDiff = "diff"
           THEN /\ pc' = "summarizeEntireDiff"
                /\ UNCHANGED <<batchIdx, allFileSummaries, attempt, nCalls, console>>
           ELSE IF batchDiff = "null"
           THEN /\ NextBatchEndsEarly(allFileSummaries)
                /\ console' = WarnNoDiff(console)
           ELSE /\ NextBatch(allFileSummaries)
                /\ console' = console
    /\ UNCHANGED <<pureVars, gitVars, diskVars, processVars, branches, branchIdx, from, to,
                   oldHeuristics, heuristics, batches, branchSummaries, lastCall, pending>>

\* getGitDiff for a batch (lines 152-153, 592-600): the diff; null, with a
\* warning, when git fails; or an empty diff. A batch whose diff is null or
\* empty is passed over.
GetGitDiff ==
    /\ pc = "getGitDiff"
    /\ \E batchDiff \in {"diff", "null", ""} :
           IF batchDiff = "diff"
           THEN /\ pc' = "summarizeEntireDiff"
                /\ UNCHANGED <<batchIdx, allFileSummaries, attempt, nCalls, console>>
           ELSE /\ NextBatch(allFileSummaries)
                /\ console' = IF batchDiff = "null" THEN WarnNoDiff(console) ELSE console
    /\ UNCHANGED <<pureVars, gitVars, diskVars, processVars, branches, branchIdx, from, to,
                   oldHeuristics, heuristics, batches, branchSummaries, lastCall, pending>>

\* The call of summarizeEntireDiff not awaited: the loop goes to the next
\* batch while the call is outstanding.
SummarizeEntireDiffCallNotAwaited ==
    /\ pc = "summarizeEntireDiff"
    /\ \E o \in AnalysisOutcomes(batches[batchIdx]) :
           ProviderCall("summarizeEntireDiff",
                        <<"analysis", branches[branchIdx], batches[batchIdx]>>, o)
    /\ IF batchIdx < Len(batches)
       THEN pc' = "getGitDiff" /\ batchIdx' = batchIdx + 1
       ELSE pc' = "summarizeEntireDiff.response" /\ batchIdx' = batchIdx
    /\ UNCHANGED <<pureVars, gitVars, diskVars, processVars, branches, branchIdx, from, to,
                   oldHeuristics, heuristics, batches, attempt, allFileSummaries,
                   branchSummaries, console>>

\* The provider call of one attempt of summarizeEntireDiff (line 683).
SummarizeEntireDiffCall ==
    /\ pc = "summarizeEntireDiff"
    /\ \E o \in AnalysisOutcomes(batches[batchIdx]) :
           ProviderCall("summarizeEntireDiff",
                        <<"analysis", branches[branchIdx], batches[batchIdx]>>, o)
    /\ pc' = "summarizeEntireDiff.response"
    /\ UNCHANGED <<pureVars, gitVars, diskVars, processVars, loopVars, console>>

\* The rest of the attempt (lines 684-700) and, when summarizeEntireDiff
\* returns, the push of its file summaries (lines 155-157).
SummarizeEntireDiffResponse ==
    /\ pc = "summarizeEntireDiff.response"
    /\ LET o == lastCall.outcome
           step == RetryStep(o, attempt, MAX_RETRIES_summarizeEntireDiff,
                             AnalysisValid(JsonParse(o)))
       IN CASE step = "retry" ->
                 /\ attempt' = attempt + 1
                 /\ pc' = "summarizeEntireDiff"
                 /\ UNCHANGED <<batchIdx, allFileSummaries, nCalls, lastCall>>
            [] step = "return" ->
                 /\ NextBatch(allFileSummaries \o JsonParse(o).fileSummaries)
                 /\ lastCall' = NoCall
            [] step = "giveup" ->
                 /\ NextBatch(allFileSummaries)
                 /\ lastCall' = NoCall
    /\ ProviderCallSettles
    /\ UNCHANGED <<pureVars, gitVars, diskVars, processVars, branches, branchIdx, from, to,
                   oldHeuristics, heuristics, batches, branchSummaries, console>>

\* The provider call of createFinalSummary (line 721).
CreateFinalSummaryCall ==
    /\ pc = "createFinalSummary"
    /\ \E o \in FinalOutcomes :
           ProviderCall("createFinalSummary",
                        <<"final", branches[branchIdx], allFileSummaries>>, o)
    /\ pc' = "createFinalSummary.response"
    /\ UNCHANGED <<pureVars, gitVars, diskVars, processVars, loopVars, console>>

\* The files whose diff cannot be read when the diffs are attached.
DiffFailures(fileSummaries) ==
    IF fileSummaries = <<>> THEN {{}} ELSE {{}, {fileSummaries[1].file}}

\* The return of createFinalSummary (lines 722-726), whose outcome decides
\* the narrative, and the start of the reads of the diffs of all the file
\* summaries (lines 163-164): the reads run together.
CreateFinalSummaryResponse ==
    /\ pc = "createFinalSummary.response"
    /\ pc' = "Promise.all"
    /\ pending' = (pending \ {ProviderOp(lastCall.fn, lastCall.prompt)})
                       \cup {DiffRead(k, allFileSummaries[k].file) :
                                 k \in 1..Len(allFileSummaries)}
    /\ UNCHANGED <<pureVars, gitVars, diskVars, processVars, loopVars, logVars>>

\* Promise.all settles when every read has (lines 163-166); a read that
\* fails gives no diff. The branch entry is pushed (lines 168-175).
PromiseAll ==
    /\ pc = "Promise.all"
    /\ \E missing \in DiffFailures(allFileSummaries) :
        LET o == lastCall.outcome
            finalHighLevelSummary ==
                IF o.throws = "none" THEN "Final"
                ELSE "Could not generate a final high-level summary."
            summariesWithDiffs ==
                [k \in 1..Len(allFileSummaries) |->
                    [file |-> allFileSummaries[k].file,
                     summary |-> allFileSummaries[k].summary,
                     diff |-> IF allFileSummaries[k].file \in missing
                              THEN "undefined" ELSE "diff"]]
            noisyFiles ==
                getChangedFiles(FlatMapFiles(getCommitHistory(from, to)),
                                heuristics.ignore_patterns).noisyFiles
        IN branchSummaries' = Append(branchSummaries,
               [branch |-> branches[branchIdx],
                highLevelSummary |-> finalHighLevelSummary,
                summaries |-> summariesWithDiffs,
                noisyChanges |-> noisyFiles,
                from |-> from, to |-> to])
        /\ console' = WarnNoDiffTimes(console,
               Cardinality({k \in 1..Len(allFileSummaries) :
                               allFileSummaries[k].file \in missing}))
    /\ NextIteration
    /\ lastCall' = NoCall
    /\ pending' = pending \ {DiffRead(k, allFileSummaries[k].file) :
                                 k \in 1..Len(allFileSummaries)}
    /\ UNCHANGED <<pureVars, gitVars, diskVars, processVars, branches>>

\* The messages of the two ends of runAnalysis: it returns null (lines
\* 187-189), or the report it has written (lines 207-210).
NoChangesMessage == "No new changes detected on analyzed branches."
SavedMessage == "Analysis saved to"

\* The report is written before the loop over the branches has ended.
FinishBeforeLastBranch ==
    /\ pc = "branch" /\ branchIdx >= Len(branches)
    /\ IF Len(branchSummaries) = 0
       THEN /\ store' = store
            /\ console' = Append(console, [branch |-> "", from |-> NoRef, to |-> NoRef,
                                            msg |-> NoChangesMessage])
       ELSE /\ store' = Append(store, [id |-> clock, createdAt |-> clock,
                                       branches |-> branchSummaries])
            /\ console' = Append(console, [branch |-> "", from |-> NoRef, to |-> NoRef,
                                            msg |-> SavedMessage])
    /\ clock' = clock + 1
    /\ isAnalyzing' = FALSE
    /\ options' = [force |-> FALSE]
    /\ runs' = runs + 1
    /\ pc' = "idle"
    /\ branches' = <<>>
    /\ branchIdx' = 1
    /\ branchSummaries' = <<>>
    /\ UNCHANGED <<pureVars, gitVars, heuristicsFile, everForced, changes, geminiApiKey,
                   from, to, oldHeuristics, heuristics, batches, batchIdx, attempt,
                   allFileSummaries, lastCall, nCalls, pending>>

\* The report is written over the report saved last.
FinishOverwritesLast ==
    /\ pc = "branch" /\ branchIdx > Len(branches)
    /\ IF Len(branchSummaries) = 0
       THEN store' = store
       ELSE IF Len(store) = 0
       THEN store' = << [id |-> clock, createdAt |-> clock, branches |-> branchSummaries] >>
       ELSE store' = [store EXCEPT ![Len(store)] =
                         [id |-> store[Len(store)].id, createdAt |-> clock,
                          branches |-> branchSummaries]]
    /\ clock' = clock + 1
    /\ isAnalyzing' = FALSE
    /\ options' = [force |-> FALSE]
    /\ runs' = runs + 1
    /\ pc' = "idle"
    /\ branches' = <<>>
    /\ branchIdx' = 1
    /\ branchSummaries' = <<>>
    /\ UNCHANGED <<pureVars, gitVars, heuristicsFile, everForced, changes, geminiApiKey,
                   from, to, oldHeuristics, heuristics, batches, batchIdx, attempt,
                   allFileSummaries, lastCall, nCalls, console, pending>>

\* The end of runAnalysis (lines 191-212) and of doAnalysis (lines 378-380):
\* the report is written when a branch produced an entry, and the
\* in-progress flag is reset.
Finish ==
    /\ pc = "branch" /\ branchIdx > Len(branches)
    /\ IF Len(branchSummaries) = 0
       THEN /\ store' = store
            /\ console' = Append(console, [branch |-> "", from |-> NoRef, to |-> NoRef,
                                            msg |-> NoChangesMessage])
       ELSE /\ store' = Append(store, [id |-> clock, createdAt |-> clock,
                                       branches |-> branchSummaries])
            /\ console' = Append(console, [branch |-> "", from |-> NoRef, to |-> NoRef,
                                            msg |-> SavedMessage])
    /\ clock' = clock + 1
    /\ isAnalyzing' = FALSE
    /\ options' = [force |-> FALSE]
    /\ runs' = runs + 1
    /\ pc' = "idle"
    /\ branches' = <<>>
    /\ branchIdx' = 1
    /\ branchSummaries' = <<>>
    /\ UNCHANGED <<pureVars, gitVars, heuristicsFile, everForced, changes, geminiApiKey,
                   from, to, oldHeuristics, heuristics, batches, batchIdx, attempt,
                   allFileSummaries, lastCall, nCalls, pending>>

Next ==
    \/ NewCommit
    \/ Pull
    \/ Checkout
    \/ doAnalysis
    \/ BranchBegin
    \/ UpdateHeuristicsCall
    \/ UpdateHeuristicsResponse
    \/ GetGitDiff
    \/ SummarizeEntireDiffCall
    \/ SummarizeEntireDiffResponse
    \/ CreateFinalSummaryCall
    \/ CreateFinalSummaryResponse
    \/ PromiseAll
    \/ Finish

Spec == Init /\ [][Next]_vars

\* ---- doAnalysis invoked during a run ----
\* The callers of doAnalysis (lines 400, 417) await it, so that Next invokes
\* it between runs only. Here it is invoked while a run is in progress as
\* well, as by a repeated user action: it logs and returns (lines 369-372).
\* The number of such invocations during one run is bounded.
MaxRejected == 1

InProgressMessage == "Analysis already in progress."

Rejected(log) == Cardinality({k \in 1..Len(log) : log[k].msg = InProgressMessage})

\* doAnalysis starts runAnalysis again, without looking at the flag.
doAnalysisWhileAnalyzingRunsAgain ==
    /\ isAnalyzing
    /\ Rejected(console) < MaxRejected
    /\ \E force \in BOOLEAN :
           /\ options' = [force |-> force]
           /\ everForced' = (everForced \/ force)
    /\ branches' = getBranchesToAnalyze(currentBranch)
    /\ branchSummaries' = <<>>
    /\ branchIdx' = 1
    /\ console' = <<>>
    /\ pc' = "branch"
    /\ UNCHANGED <<pureVars, gitVars, diskVars, isAnalyzing, runs, changes, geminiApiKey,
                   from, to, oldHeuristics, heuristics, batches, batchIdx, attempt,
                   allFileSummaries, lastCall, nCalls, pending>>

doAnalysisWhileAnalyzing ==
    /\ isAnalyzing
    /\ Rejected(console) < MaxRejected
    /\ console' = Append(console, [branch |-> "", from |-> NoRef, to |-> NoRef,
                                   msg |-> InProgressMessage])
    /\ UNCHANGED <<pc, pureVars, gitVars, diskVars, loopVars, processVars, lastCall,
                   nCalls, pending>>

NextReentry == Next \/ doAnalysisWhileAnalyzing

SpecReentry == Init /\ [][NextReentry]_vars

\* ---- runAnalysis throws ----
\* runAnalysis awaits git and reads and writes files outside any try block:
\* git.revparse and git.log at the top of the loop over the branches (lines
\* 82, 96), the read of heuristics.json (99), the write of the report
\* (206), and the checks before the loop (60-71). When one of them throws,
\* runAnalysis rejects; doAnalysis catches the error, handleError logs it,
\* and the finally block resets the flag (lines 376-380).
ErrorMessage == "Error:"

\* doAnalysis without the finally block: the flag stays set.
RunAnalysisThrowsNoFinally ==
    /\ pc = "branch" /\ isAnalyzing
    /\ console' = Append(console, [branch |-> "", from |-> NoRef, to |-> NoRef,
                                    msg |-> ErrorMessage])
    /\ isAnalyzing' = TRUE
    /\ options' = [force |-> FALSE]
    /\ runs' = runs + 1
    /\ pc' = "idle"
    /\ branches' = <<>>
    /\ branchIdx' = 1
    /\ branchSummaries' = <<>>
    /\ UNCHANGED <<pureVars, gitVars, diskVars, everForced, changes, geminiApiKey,
                   from, to, oldHeuristics, heuristics, batches, batchIdx, attempt,
                   allFileSummaries, lastCall, nCalls, pending>>

RunAnalysisThrows ==
    /\ pc = "branch" /\ isAnalyzing
    /\ console' = Append(console, [branch |-> "", from |-> NoRef, to |-> NoRef,
                                    msg |-> ErrorMessage])
    /\ isAnalyzing' = FALSE
    /\ options' = [force |-> FALSE]
    /\ runs' = runs + 1
    /\ pc' = "idle"
    /\ branches' = <<>>
    /\ branchIdx' = 1
    /\ branchSummaries' = <<>>
    /\ UNCHANGED <<pureVars, gitVars, diskVars, everForced, changes, geminiApiKey,
                   from, to, oldHeuristics, heuristics, batches, batchIdx, attempt,
                   allFileSummaries, lastCall, nCalls, pending>>

NextThrows == Next \/ RunAnalysisThrows

SpecThrows == Init /\ [][NextThrows]_vars

(***************************************************************************)
(* Calls of the pure functions on bounded inputs.                          *)
(***************************************************************************)
RECURSIVE Join(_, _)
Join(lines, sep) ==
    IF lines = <<>> THEN <<>>
    ELSE IF Len(lines) = 1 THEN Head(lines)
         ELSE Head(lines) \o <<sep>> \o Join(Tail(lines), sep)

\* The lines the modelled diffs are made of: hunk headers, lines that only
\* look like one, and body lines.
LinePool ==
    { <<"@", "@", "@", "@">>,
      <<"@", "@", "-", "1", ",", "2", " ", "+", "1", ",", "2", "@", "@">>,
      <<"@", "@", "x", "@", "@">>,
      <<"@", "@", "@", "@", CR>>,
      <<"@", "@", "x">>,
      <<"@", "@", "@">>,
      <<"x", "@", "@", "@", "@">>,
      <<"x">>,
      <<>> }

MaxLines == 3
MaxBudget == 4

DiffPool == {Join(ls, NL) : ls \in SeqsUpTo(LinePool, MaxLines)}

Paths == {"a.ts", "b.ts", "c.ts"}

IsInjective(s) == \A i, j \in 1..Len(s) : s[i] = s[j] => i = j

\* Fifteen primary files that no group and no commit of the pools lists.
ManyFiles ==
    <<"file1.ts", "file2.ts", "file3.ts", "file4.ts", "file5.ts", "file6.ts", "file7.ts",
      "file8.ts", "file9.ts", "file10.ts", "file11.ts", "file12.ts", "file13.ts",
      "file14.ts", "file15.ts">>

\* Lists of primary files: every order of every subset, two lists that
\* repeat a path (a file changed by two commits), and a long list.
FilesPool ==
    {s \in SeqsUpTo(Paths, Cardinality(Paths)) : IsInjective(s)}
        \cup { <<"a.ts", "a.ts">>, <<"b.ts", "a.ts", "b.ts">>, ManyFiles }

GroupPool ==
    { <<"a.ts", "b.ts">>,
      <<"b.ts", "c.ts">>,
      <<"a.ts", "a.ts">>,
      <<"c.ts", "z.ts">>,
      <<"a.ts", "b.ts", "c.ts">> }

CommitFilesPool ==
    { <<"a.ts">>,
      <<"a.ts", "b.ts">>,
      <<"c.ts", "b.ts", "c.ts">>,
      <<"b.ts", "a.ts", "c.ts">>,
      <<"z.ts">> }

MaxGroups == 2
MaxCommits == 2

\* Commit records in log order; the hash is the commit's place in the log.
Commits(fileLists) ==
    [i \in 1..Len(fileLists) |-> [hash |-> i, files |-> fileLists[i]]]

InitChunk ==
    /\ pc = "call"
    /\ call \in [fn : {"splitDiffIntoChunks"}, diff : DiffPool, maxTokens : 0..MaxBudget]
    /\ ret = <<>>
    /\ head = 1 /\ sincePoint = [br \in Branches |-> NoRef] /\ currentBranch = mainBranch
    /\ geminiApiKey = TRUE
    /\ ProgramIdle

CallSplitDiffIntoChunks ==
    /\ pc = "call"
    /\ call.fn = "splitDiffIntoChunks"
    /\ ret' = splitDiffIntoChunks(call.diff, call.maxTokens)
    /\ pc' = "return"
    /\ UNCHANGED <<call, summarizeVars, gitVars, diskVars, loopVars, logVars, processVars, pending>>

NextChunk == CallSplitDiffIntoChunks

SpecChunk == InitChunk /\ [][NextChunk]_vars

\* ---- getChangedFiles (lines 535-546) ----
PathPool == {"a.ts", "dist/x.js", "yarn.lock", "web/yarn.lock", "package-lock.json"}
IgnorePatternPool == {"dist/", ".ts", ""}
MaxFiles == 3
MaxPatterns == 2

InitChanged ==
    /\ pc = "call"
    /\ call \in [fn : {"getChangedFiles"},
                 allFiles : SeqsUpTo(PathPool, MaxFiles),
                 extraIgnorePatterns : SeqsUpTo(IgnorePatternPool, MaxPatterns)]
    /\ ret = <<>>
    /\ head = 1 /\ sincePoint = [br \in Branches |-> NoRef] /\ currentBranch = mainBranch
    /\ geminiApiKey = TRUE
    /\ ProgramIdle

CallGetChangedFiles ==
    /\ pc = "call"
    /\ call.fn = "getChangedFiles"
    /\ ret' = getChangedFiles(call.allFiles, call.extraIgnorePatterns)
    /\ pc' = "return"
    /\ UNCHANGED <<call, summarizeVars, gitVars, diskVars, loopVars, logVars, processVars, pending>>

NextChanged == CallGetChangedFiles

SpecChanged == InitChanged /\ [][NextChanged]_vars

\* ---- updateHeuristics on responses whose lists hold any JSON value ----
\* The JSON values in the lists of a heuristics object: strings, numbers,
\* and lists of such values.
JsonString(s) == [json |-> "string", value |-> s]
JsonNumber == [json |-> "number"]
JsonArray(items) == [json |-> "array", items |-> items]

JsonStrings(ss) == [k \in 1..Len(ss) |-> JsonString(ss[k])]

\* The heuristics.json that earlier runs wrote, in JSON values.
StoredHeuristicsPool ==
    { [ignore_patterns |-> <<>>, file_groups |-> <<>>],
      [ignore_patterns |-> JsonStrings(<<"dist/">>),
       file_groups |-> << JsonArray(JsonStrings(<<"a.ts", "b.ts">>)) >>] }

\* What the provider may answer to the heuristics prompt: objects of the
\* wanted shape; objects whose two fields are lists, of which file_groups
\* holds a string or a list with a number, or ignore_patterns a number; an
\* object whose file_groups is no list; text that is no JSON; an error.
JsonHeuristicsOutcomes ==
    { Text("json", HeuristicsObject(JsonStrings(<<"dist/">>), TRUE,
                                    << JsonArray(JsonStrings(<<"b.ts", "c.ts">>)) >>, TRUE)),
      Text("none", HeuristicsObject(<<>>, TRUE, <<>>, TRUE)),
      Text("none", HeuristicsObject(<<>>, TRUE, JsonStrings(<<"a.ts", "b.ts">>), TRUE)),
      Text("none", HeuristicsObject(<<>>, TRUE, << JsonArray(<<JsonNumber, JsonString("a.ts")>>) >>,
                                    TRUE)),
      Text("json", HeuristicsObject(<<JsonNumber>>, TRUE, <<>>, TRUE)),
      Text("none", HeuristicsObject(<<>>, TRUE, <<>>, FALSE)),
      Text("none", Garbage),
      Throw("network") }

\* group.filter exists on lists only; a value of a group that is no string
\* is never in remainingFiles, a Set of paths.
HasFilter(group) == group.json = "array"

RECURSIVE StringsOf(_)
StringsOf(items) ==
    IF items = <<>> THEN <<>>
    ELSE (IF Head(items).json = "string" THEN <<Head(items).value>> ELSE <<>>)
             \o StringsOf(Tail(items))

InitHeuristics ==
    /\ pc = "updateHeuristics"
    /\ call \in [fn : {"updateHeuristics"},
                 files : {s \in SeqsUpTo(Paths, Cardinality(Paths)) : IsInjective(s) /\ s # <<>>},
                 oldHeuristics : StoredHeuristicsPool]
    /\ ret = <<>>
    /\ head = 1 /\ sincePoint = [br \in Branches |-> NoRef] /\ currentBranch = mainBranch
    /\ geminiApiKey = TRUE
    /\ ProgramIdle

\* The provider call of one attempt (line 256).
JsonHeuristicsCall ==
    /\ pc = "updateHeuristics"
    /\ \E o \in JsonHeuristicsOutcomes :
           ProviderCall("updateHeuristics", <<"heuristics", call.oldHeuristics>>, o)
    /\ pc' = "updateHeuristics.response"
    /\ UNCHANGED <<pureVars, gitVars, diskVars, processVars, loopVars, console>>

\* The rest of the attempt (lines 257-272) and, when updateHeuristics
\* returns, the write of the heuristics file (lines 106-107).
JsonHeuristicsResponse ==
    /\ pc = "updateHeuristics.response"
    /\ LET o == lastCall.outcome
           step == RetryStep(o, attempt, MAX_RETRIES, HeuristicsValid(JsonParse(o)))
           h == IF step = "return" THEN AsHeuristics(JsonParse(o)) ELSE call.oldHeuristics
       IN IF step = "retry"
          THEN /\ attempt' = attempt + 1
               /\ pc' = "updateHeuristics"
               /\ UNCHANGED <<ret, heuristicsFile>>
          ELSE /\ ret' = h
               /\ heuristicsFile' = [exists |-> TRUE, content |-> h]
               /\ attempt' = attempt
               /\ pc' = "createSmartBatches"
    /\ ProviderCallSettles
    /\ UNCHANGED <<call, summarizeVars, gitVars, store, clock, processVars, branches, branchIdx,
                   from, to, oldHeuristics, heuristics, batches, batchIdx, allFileSummaries,
                   branchSummaries, logVars>>

\* createSmartBatches on the returned file_groups (lines 143, 552-561): the
\* loop calls group.filter, which throws a TypeError on a group that is no
\* list.
PlanWithReturnedGroups ==
    /\ pc = "createSmartBatches"
    /\ IF \A k \in 1..Len(ret.file_groups) : HasFilter(ret.file_groups[k])
       THEN /\ batches' = createSmartBatches(call.files,
                              [k \in 1..Len(ret.file_groups) |->
                                  StringsOf(ret.file_groups[k].items)],
                              <<>>)
            /\ pc' = "return"
       ELSE /\ batches' = <<>>
            /\ pc' = "TypeError"
    /\ UNCHANGED <<pureVars, gitVars, diskVars, processVars, branches, branchIdx, from, to,
                   oldHeuristics, heuristics, batchIdx, attempt, allFileSummaries,
                   branchSummaries, logVars, pending>>

NextHeuristics ==
    \/ JsonHeuristicsCall
    \/ JsonHeuristicsResponse
    \/ PlanWithReturnedGroups

SpecHeuristics == InitHeuristics /\ [][NextHeuristics]_vars

\* ---- getSincePointFromReflog (lines 293-313) ----
\* A line of `git reflog show origin/<branch>`, the newest entry first: the
\* short hash the line begins with, and the message of the entry.
PullMessage == <<"p", "u", "l", "l", ":", " ", "f", "f">>
FetchMessage == <<"f", "e", "t", "c", "h", ":", " ", "f", "f">>
PushMessage == <<"u", "p", "d", "a", "t", "e", " ", "b", "y", " ", "p", "u", "s", "h">>
ReflogLines == [hash : Refs, message : {PullMessage, FetchMessage, PushMessage}]
MaxReflog == 3

\* line.includes('pull:')
IncludesPull(line) == IncludesChars(line.message, <<"p", "u", "l", "l", ":">>)

\* lines.findIndex(line => line.includes('pull:')): 0-based, -1 when no line
\* includes it.
findIndexPull(lines) ==
    IF \E k \in 1..Len(lines) : IncludesPull(lines[k])
    THEN (CHOOSE k \in 1..Len(lines) :
              /\ IncludesPull(lines[k])
              /\ \A j \in 1..(k - 1) : ~IncludesPull(lines[j])) - 1
    ELSE -1

\* The function; gitFails: git.raw throws, which the function catches. The
\* result null is NoRef.
getSincePointFromReflog(reflog, gitFails) ==
    IF gitFails THEN NoRef
    ELSE LET pullIndex == findIndexPull(reflog)
         IN IF pullIndex >= 0 /\ pullIndex > 0
            THEN LET prevLine == reflog[pullIndex + 1]
                 IN prevLine.hash
            ELSE NoRef

InitReflog ==
    /\ pc = "call"
    /\ call \in [fn : {"getSincePointFromReflog"},
                 reflog : SeqsUpTo(ReflogLines, MaxReflog),
                 gitFails : BOOLEAN]
    /\ ret = NoRef
    /\ head = 1 /\ sincePoint = [br \in Branches |-> NoRef] /\ currentBranch = mainBranch
    /\ geminiApiKey = TRUE
    /\ ProgramIdle

CallGetSincePointFromReflog ==
    /\ pc = "call"
    /\ call.fn = "getSincePointFromReflog"
    /\ ret' = getSincePointFromReflog(call.reflog, call.gitFails)
    /\ pc' = "return"
    /\ UNCHANGED <<call, summarizeVars, gitVars, diskVars, loopVars, logVars, processVars, pending>>

NextReflog == CallGetSincePointFromReflog

SpecReflog == InitReflog /\ [][NextReflog]_vars

InitBatch ==
    /\ pc = "call"
    /\ call \in [fn : {"createSmartBatches"},
                 files : FilesPool,
                 groups : SeqsUpTo(GroupPool, MaxGroups),
                 commitHistory : {Commits(fl) : fl \in SeqsUpTo(CommitFilesPool, MaxCommits)}]
    /\ ret = <<>>
    /\ head = 1 /\ sincePoint = [br \in Branches |-> NoRef] /\ currentBranch = mainBranch
    /\ geminiApiKey = TRUE
    /\ ProgramIdle

CallCreateSmartBatches ==
    /\ pc = "call"
    /\ call.fn = "createSmartBatches"
    /\ ret' = createSmartBatches(call.files, call.groups, call.commitHistory)
    /\ pc' = "return"
    /\ UNCHANGED <<call, summarizeVars, gitVars, diskVars, loopVars, logVars, processVars, pending>>

NextBatchCall == CallCreateSmartBatches

SpecBatch == InitBatch /\ [][NextBatchCall]_vars

(***************************************************************************)
(* summarizeChanges: one summary of one file's diff, with makeApiCall.     *)
(***************************************************************************)
\* String.prototype.toLowerCase, on the characters of the model names.
ToLowerCase(chars) ==
    [k \in 1..Len(chars) |->
        CASE chars[k] = "G" -> "g"
          [] chars[k] = "P" -> "p"
          [] chars[k] = "T" -> "t"
          [] OTHER -> chars[k]]

getTokenLimitForModel(model) ==
    LET modelLower == ToLowerCase(Chars(model))
    IN IF IncludesChars(modelLower, Chars("gemini")) THEN 1000000
       ELSE IF IncludesChars(modelLower, Chars("gpt-5")) THEN 8000
       ELSE 4000

\* The tokens left free for the prompt around a chunk.
PromptBuffer == 500

\* primaryModelFn and fallbackModelFn: the provider each of them calls.
primaryModelFn(model) ==
    IF StartsWithChars(ToLowerCase(Chars(model)), Chars("gpt")) THEN "gpt" ELSE "gemini"

fallbackModelFn(model) ==
    IF StartsWithChars(ToLowerCase(Chars(model)), Chars("gpt")) THEN "gemini" ELSE "gpt"

Models == {"gemini-pro", "gpt-5", "GPT-4", "llama"}

RECURSIVE Repeat(_, _)
Repeat(text, n) == IF n = 0 THEN <<>> ELSE text \o Repeat(text, n - 1)

\* A large diff: LargeDiffHunks hunks of a header line and LargeHunkLines
\* body lines of LineChars characters each.
LineChars == 100
LargeHunkLines == 60
LargeDiffHunks == 3
BodyLine == [k \in 1..(LineChars - 1) |-> "x"] \o <<NL>>
LargeHunk == <<"@", "@", "@", "@", NL>> \o Repeat(BodyLine, LargeHunkLines)

\* n characters of body lines of LineChars characters, the last line the
\* shorter one.
BodyOfLen(n) == [k \in 1..n |-> IF k % LineChars = 0 \/ k = n THEN NL ELSE "x"]

\* A hunk of n characters: a header line and body lines.
HunkOfLen(n) == <<"@", "@", "@", "@", NL>> \o BodyOfLen(n - 5)

\* A diff of total characters in h hunks, the last one taking the remainder.
DiffOfHunks(total, h) ==
    Repeat(HunkOfLen(total \div h), h - 1) \o HunkOfLen(total - (h - 1) * (total \div h))

\* The number of characters whose estimate is 3 times the limit of a model.
TripleLimitChars(model) == 3 * getTokenLimitForModel(model) * CharsPerToken

MaxHunks == 3

\* Diffs whose estimate is 3 times the limit of a model: of one hunk, of
\* several equal hunks, of a short hunk before a long one, of a line before
\* the only hunk header, and with no hunk header at all.
TripleLimitDiffPool(model) ==
    {DiffOfHunks(TripleLimitChars(model), h) : h \in 1..MaxHunks}
        \cup {HunkOfLen(LineChars) \o HunkOfLen(TripleLimitChars(model) - LineChars)}
        \cup {<<"x", NL>> \o HunkOfLen(TripleLimitChars(model) - 2)}
        \cup {<<"x", NL>> \o BodyOfLen(TripleLimitChars(model) - 2)}

\* The models with a small budget: gpt-5 and a model the code does not know.
SmallBudgetModels == {"gpt-5", "llama"}

SummarizeDiffPool ==
    { <<>>,
      <<"@", "@", "@", "@", NL, "x">>,
      Repeat(LargeHunk, LargeDiffHunks) }

\* The texts of summarizeChanges run to tens of thousands of characters. The
\* state keeps each of them packed as its runs of equal characters, in order;
\* every function of the program is applied to the characters (Unpack).
RECURSIVE PackRange(_, _, _)
PackRange(text, lo, hi) ==
    IF \A i \in lo..hi : text[i] = text[lo]
    THEN << [c |-> text[lo], n |-> hi - lo + 1] >>
    ELSE LET mid == (lo + hi) \div 2
             l == PackRange(text, lo, mid)
             r == PackRange(text, mid + 1, hi)
         IN IF l[Len(l)].c = r[1].c
            THEN SubSeq(l, 1, Len(l) - 1)
                     \o << [c |-> r[1].c, n |-> l[Len(l)].n + r[1].n] >>
                     \o Tail(r)
            ELSE l \o r

Pack(text) == IF Len(text) = 0 THEN <<>> ELSE PackRange(text, 1, Len(text))

RECURSIVE Unpack(_)
Unpack(packed) ==
    IF Len(packed) = 0 THEN <<>>
    ELSE IF Len(packed) = 1
    THEN SubSeq([k \in 1..packed[1].n |-> packed[1].c], 1, packed[1].n)
    ELSE LET mid == Len(packed) \div 2
         IN Unpack(SubSeq(packed, 1, mid)) \o Unpack(SubSeq(packed, mid + 1, Len(packed)))

\* What a provider may answer to a summary prompt.
SummaryOutcomes == {Throw(e) : e \in Errors} \cup {Text("none", [json |-> "text"])}

\* The prompts of summarizeChanges: the text around the diff is fixed, so a
\* prompt is its kind, the file and the part that varies.
SummaryPrompt(fileName, branchName, diff) == <<"summary", fileName, branchName, diff>>
ChunkPrompt(fileName, chunk) == <<"chunk", fileName, chunk>>
ReducePrompt(fileName, summaries) == <<"reduce", fileName, summaries>>

\* diffTokens < tokenLimit (line 750)
FitsModel == estimateTokens(Unpack(call.diff)) < getTokenLimitForModel(call.model)

\* The prompt makeApiCall is called with at the current place of
\* summarizeChanges.
CurrentPrompt ==
    IF FitsModel THEN SummaryPrompt(call.fileName, call.branchName, call.diff)
    ELSE IF chunkIdx <= Len(chunks) THEN ChunkPrompt(call.fileName, chunks[chunkIdx])
    ELSE ReducePrompt(call.fileName, chunkSummaries)

InitSummarize ==
    /\ pc = "summarizeChanges"
    /\ call \in [fn : {"summarizeChanges"}, model : Models,
                 diff : {Pack(diff) : diff \in SummarizeDiffPool},
                 branchName : {"main"}, fileName : {"a.ts"}]
    /\ ret = <<>>
    /\ head = 1 /\ sincePoint = [br \in Branches |-> NoRef] /\ currentBranch = mainBranch
    /\ geminiApiKey = TRUE
    /\ ProgramIdle

\* summarizeChanges up to its first makeApiCall (lines 747-769).
SummarizeChangesBegin ==
    /\ pc = "summarizeChanges"
    /\ chunks' = IF FitsModel THEN <<>>
                 ELSE LET split == splitDiffIntoChunks(Unpack(call.diff),
                                       getTokenLimitForModel(call.model) - PromptBuffer)
                      IN [k \in 1..Len(split) |-> Pack(split[k])]
    /\ chunkIdx' = 1
    /\ chunkSummaries' = <<>>
    /\ pc' = "makeApiCall"
    /\ UNCHANGED <<call, ret, gitVars, diskVars, loopVars, logVars, processVars, pending>>

MakeApiCallReturnsSkipsReduce(text) ==
    IF FitsModel \/ chunkIdx >= Len(chunks)
    THEN /\ ret' = text
         /\ pc' = "return"
         /\ UNCHANGED summarizeVars
    ELSE /\ chunkSummaries' = Append(chunkSummaries, text)
         /\ chunkIdx' = chunkIdx + 1
         /\ pc' = "makeApiCall"
         /\ UNCHANGED <<ret, chunks>>

\* makeApiCall returns text to summarizeChanges (lines 761, 782-783, 802):
\* a chunk summary is pushed and the loop goes on, the single summary or the
\* reduced one is the result.
MakeApiCallReturns(text) ==
    IF FitsModel \/ chunkIdx > Len(chunks)
    THEN /\ ret' = text
         /\ pc' = "return"
         /\ UNCHANGED summarizeVars
    ELSE /\ chunkSummaries' = Append(chunkSummaries, text)
         /\ chunkIdx' = chunkIdx + 1
         /\ pc' = "makeApiCall"
         /\ UNCHANGED <<ret, chunks>>

\* The error of makeApiCall is taken as the chunk's summary and the loop
\* goes on.
MakeApiCallThrowsGoesOn(error) ==
    IF FitsModel \/ chunkIdx > Len(chunks)
    THEN /\ ret' = [error |-> error]
         /\ pc' = "thrown"
         /\ UNCHANGED summarizeVars
    ELSE /\ chunkSummaries' = Append(chunkSummaries, [json |-> "text"])
         /\ chunkIdx' = chunkIdx + 1
         /\ pc' = "makeApiCall"
         /\ UNCHANGED <<ret, chunks>>

\* makeApiCall throws: summarizeChanges has no catch, the error leaves it.
MakeApiCallThrows(error) ==
    /\ ret' = [error |-> error]
    /\ pc' = "thrown"
    /\ UNCHANGED summarizeVars

\* makeApiCall, the call of the primary provider (line 736).
PrimaryCall ==
    /\ pc = "makeApiCall"
    /\ \E o \in SummaryOutcomes :
           lastCall' = [fn |-> "makeApiCall", provider |-> primaryModelFn(call.model),
                        prompt |-> CurrentPrompt, outcome |-> o]
    /\ nCalls' = 1
    /\ pc' = "makeApiCall.primary"
    /\ UNCHANGED <<pureVars, gitVars, diskVars, loopVars, console, processVars, pending>>

\* console.warn of makeApiCall before the fallback call (line 739).
FallbackWarning == "Attempting fallback"

\* makeApiCall after the primary call (lines 736-743).
PrimaryResponse ==
    /\ pc = "makeApiCall.primary"
    /\ LET o == lastCall.outcome
       IN IF o.throws = "none"
          THEN MakeApiCallReturns(o.body) /\ UNCHANGED console
          ELSE IF isContextLengthError(o.throws)
          THEN /\ pc' = "makeApiCall.fallback"
               /\ console' = Append(console, [branch |-> call.branchName, from |-> NoRef,
                                               to |-> NoRef, msg |-> FallbackWarning])
               /\ UNCHANGED <<ret, summarizeVars>>
          ELSE MakeApiCallThrows(o.throws) /\ UNCHANGED console
    /\ UNCHANGED <<call, gitVars, diskVars, loopVars, lastCall, nCalls, processVars, pending>>

\* makeApiCall, the call of the fallback provider with the same prompt
\* (line 740).
FallbackCall ==
    /\ pc = "makeApiCall.fallback"
    /\ \E o \in SummaryOutcomes :
           lastCall' = [fn |-> "makeApiCall", provider |-> fallbackModelFn(call.model),
                        prompt |-> CurrentPrompt, outcome |-> o]
    /\ nCalls' = nCalls + 1
    /\ pc' = "makeApiCall.secondary"
    /\ UNCHANGED <<pureVars, gitVars, diskVars, loopVars, console, processVars, pending>>

\* makeApiCall after the fallback call: its text or its error is the result.
FallbackResponse ==
    /\ pc = "makeApiCall.secondary"
    /\ LET o == lastCall.outcome
       IN IF o.throws = "none" THEN MakeApiCallReturns(o.body)
          ELSE MakeApiCallThrows(o.throws)
    /\ UNCHANGED <<call, gitVars, diskVars, loopVars, logVars, processVars, pending>>

\* summarizeChanges called with a small-budget model on a diff whose estimate
\* is 3 times the model's limit.
InitTripleLimit ==
    /\ pc = "summarizeChanges"
    /\ \E model \in SmallBudgetModels : \E diff \in TripleLimitDiffPool(model) :
           call = [fn |-> "summarizeChanges", model |-> model, diff |-> Pack(diff),
                   branchName |-> "main", fileName |-> "a.ts"]
    /\ ret = <<>>
    /\ head = 1 /\ sincePoint = [br \in Branches |-> NoRef] /\ currentBranch = mainBranch
    /\ geminiApiKey = TRUE
    /\ ProgramIdle

\* The numbers of characters whose estimate is one below the limit of a
\* model, the limit (the fewest and the most such characters), and one
\* above it.
AroundLimitChars(model) ==
    LET limit == getTokenLimitForModel(model)
    IN {CharsPerToken * limit - CharsPerToken,
        CharsPerToken * limit - CharsPerToken + 1,
        CharsPerToken * limit,
        CharsPerToken * limit + 1}

\* summarizeChanges called with a small-budget model on a diff, of one hunk
\* or more, whose estimate is the model's limit or next to it.
InitAroundLimit ==
    /\ pc = "summarizeChanges"
    /\ \E model \in SmallBudgetModels : \E n \in AroundLimitChars(model) : \E h \in 1..MaxHunks :
           call = [fn |-> "summarizeChanges", model |-> model, diff |-> Pack(DiffOfHunks(n, h)),
                   branchName |-> "main", fileName |-> "a.ts"]
    /\ ret = <<>>
    /\ head = 1 /\ sincePoint = [br \in Branches |-> NoRef] /\ currentBranch = mainBranch
    /\ geminiApiKey = TRUE
    /\ ProgramIdle

NextSummarize ==
    \/ SummarizeChangesBegin
    \/ PrimaryCall
    \/ PrimaryResponse
    \/ FallbackCall
    \/ FallbackResponse

SpecSummarize == InitSummarize /\ [][NextSummarize]_vars

SpecTripleLimit == InitTripleLimit /\ [][NextSummarize]_vars

SpecAroundLimit == InitAroundLimit /\ [][NextSummarize]_vars

(***************************************************************************)
(* Claims about createSmartBatches (SpecBatch).                            *)
(***************************************************************************)
BatchesReturned == pc = "return" /\ call.fn = "createSmartBatches"

\* C1: the batches returned by createSmartBatches are pairwise disjoint and
\* the union of their files is the set of primary files: every primary file
\* is in exactly one batch and no other path is in any batch.
C1_BatchesPartitionPrimaryFiles ==
    BatchesReturned =>
        /\ UNION {Range(ret[i]) : i \in 1..Len(ret)} = Range(call.files)
        /\ \A i, j \in 1..Len(ret) : i # j => Range(ret[i]) \cap Range(ret[j]) = {}
        /\ \A f \in Range(call.files) :
               Cardinality({i \in 1..Len(ret) : f \in Range(ret[i])}) = 1

\* A call where a group batch, a commit batch and the catch-all batch are
\* all emitted, and a group and a commit name a path that is no primary file.
C1_Witness ==
    /\ BatchesReturned
    /\ Len(ret) >= 3
    /\ Cardinality(Range(call.files)) = 3
    /\ \E i \in 1..Len(call.groups) : "z.ts" \in Range(call.groups[i])

\* One commit of the history lists every primary file and the other
\* commits list none of them.
OneCommitListsAll ==
    /\ call.files # <<>>
    /\ \E i \in 1..Len(call.commitHistory) :
           /\ Range(call.files) \subseteq Range(call.commitHistory[i].files)
           /\ \A j \in 1..Len(call.commitHistory) :
                  j # i => Range(call.commitHistory[j].files) \cap Range(call.files) = {}

RECURSIVE GroupStep(_, _, _)
GroupStep(k, emitted, unassigned) ==
    IF k > Len(call.groups) THEN [emitted |-> emitted, unassigned |-> unassigned]
    ELSE LET present == Range(call.groups[k]) \cap unassigned
         IN IF Cardinality(present) >= 2
            THEN GroupStep(k + 1, Append(emitted, present), unassigned \ present)
            ELSE GroupStep(k + 1, emitted, unassigned)

GroupStepResult == GroupStep(1, <<>>, Range(call.files))

\* C27: the first batches returned are, for each learned group in stored
\* order, the group's files that are still unassigned, if and only if
\* there are 2 or more of them, each file once; the files of these batches
\* are in no later batch, and a group with 0 or 1 file still unassigned
\* emits no batch and takes no file from the later batches.
C27_GroupBatchIffTwoOrMore ==
    BatchesReturned =>
        LET g == GroupStepResult
            n == Len(g.emitted)
        IN /\ Len(ret) >= n
           /\ \A i \in 1..n : /\ Range(ret[i]) = g.emitted[i]
                              /\ Len(ret[i]) = Cardinality(g.emitted[i])
           /\ UNION {Range(ret[i]) : i \in (n + 1)..Len(ret)} = g.unassigned

\* The group batches that step 1 emitted and the files it left.
GroupBatches == GroupLoop(call.groups, <<>>, Dedup(call.files))[1]
LeftByGroups == Range(call.files) \ UNION {Range(GroupBatches[i]) : i \in 1..Len(GroupBatches)}

\* The files left by the groups whose first commit, in log order, is k.
FirstListedBy(k) ==
    {f \in LeftByGroups :
        /\ f \in Range(call.commitHistory[k].files)
        /\ \A j \in 1..(k - 1) : f \notin Range(call.commitHistory[j].files)}

ListedByNoCommit ==
    {f \in LeftByGroups :
        \A k \in 1..Len(call.commitHistory) : f \notin Range(call.commitHistory[k].files)}

\* The commits that are the first to list some file left by the groups, in
\* log order.
RECURSIVE CommitsWithBatch(_)
CommitsWithBatch(k) ==
    IF k > Len(call.commitHistory) THEN <<>>
    ELSE (IF FirstListedBy(k) # {} THEN <<k>> ELSE <<>>) \o CommitsWithBatch(k + 1)

C38_BatchesNonEmptyWithoutRepeats ==
    BatchesReturned =>
        \A i \in 1..Len(ret) : ret[i] # <<>> /\ IsInjective(ret[i])

\* The size of a batch that the test of runAnalysis expects.
TestBatchSize == 10

\* C24: the batches runAnalysis loops over are the ones createSmartBatches
\* returns (line 143). For more than 10 primary files they are at least two
\* batches of at most 10 files each.
C24_BatchesOfAtMostTenFiles ==
    (BatchesReturned /\ Cardinality(Range(call.files)) > TestBatchSize)
        => /\ Len(ret) >= 2
           /\ \A i \in 1..Len(ret) : Len(ret[i]) <= TestBatchSize

(***************************************************************************)
(* Claims about splitDiffIntoChunks (SpecChunk).                           *)
(***************************************************************************)
ChunksReturned == pc = "return" /\ call.fn = "splitDiffIntoChunks"

\* C4: concatenating the chunks returned by splitDiffIntoChunks in order
\* gives exactly the original diff text.
C4_ChunksConcatenateToDiff ==
    ChunksReturned => Concat(ret) = call.diff

\* A diff split into at least two chunks, one of them holding two hunks.
C4_Witness ==
    /\ ChunksReturned
    /\ Len(ret) >= 2
    /\ Len(SplitHunks(call.diff)) > Len(ret)

\* The first line of a text is a hunk header as git writes the shortest one:
\* it starts with @@ and ends with @@.
FirstLineIsHunkHeader(text) ==
    \E n \in 4..Len(text) :
        /\ \A i \in 1..n : ~IsLineTerminator(text[i])
        /\ n = Len(text) \/ IsLineTerminator(text[n + 1])
        /\ text[1] = "@" /\ text[2] = "@" /\ text[n - 1] = "@" /\ text[n] = "@"

\* The hunks of a chunk: the pieces that start at its header lines.
HunkStarts(text) ==
    {q \in 1..Len(text) :
        /\ q = 1 \/ IsLineTerminator(text[q - 1])
        /\ FirstLineIsHunkHeader(SubSeq(text, q, Len(text)))} \cup {1}

C6_ChunkBoundariesAtHunkHeaders ==
    ChunksReturned =>
        \A i \in 2..Len(ret) :
            /\ FirstLineIsHunkHeader(ret[i])
            /\ IsLineTerminator(ret[i - 1][Len(ret[i - 1])])

\* A diff of three chunks that also holds a line which starts with @@ and is
\* no hunk header.
C6_Witness ==
    /\ ChunksReturned
    /\ Len(ret) >= 3
    /\ \E q \in 1..(Len(call.diff) - 1) :
           /\ q = 1 \/ IsLineTerminator(call.diff[q - 1])
           /\ call.diff[q] = "@" /\ call.diff[q + 1] = "@"
           /\ ~FirstLineIsHunkHeader(SubSeq(call.diff, q, Len(call.diff)))

(***************************************************************************)
(* Claims about runAnalysis and the functions it calls (Spec).             *)
(***************************************************************************)
\* The triples (branch, from, to) of the branch entries of the reports.
StoredTriples(reports) ==
    UNION {{<<e.branch, e.from, e.to>> : e \in Range(reports[r].branches)} :
              r \in 1..Len(reports)}

\* The message logged by the step being taken, when it logs one.
Logged == Len(console') = Len(console) + 1
LastLogged == console'[Len(console')]
SkipMessage == "already exists. Skipping."

\* C2: when the duplicate check of a branch is reached in a run without
\* force and a stored report holds an entry with the branch's
\* (branch, from, to), the branch is skipped: no batch is summarized and no
\* branch entry is added. When no stored entry has this triple, the branch
\* is not skipped by the duplicate check.
C2_SkipExactlyWhenTripleStored ==
    [][(Logged /\ LastLogged.msg # "First run detected.") =>
          LET triple == <<LastLogged.branch, LastLogged.from, LastLogged.to>>
          IN /\ (~options.force /\ triple \in StoredTriples(store))
                    => /\ LastLogged.msg = SkipMessage
                       /\ branchSummaries' = branchSummaries
                       /\ store' = store
                       /\ pc' = "branch" /\ branchIdx' = branchIdx + 1
                       /\ batches' = <<>>
             /\ triple \notin StoredTriples(store) => LastLogged.msg # SkipMessage]_vars

\* The second run, without force, has skipped a branch whose triple the
\* first run stored.
C2_Witness ==
    /\ runs = 1 /\ pc = "branch" /\ ~options.force
    /\ console # <<>>
    /\ console[Len(console)].msg = SkipMessage
    /\ <<console[Len(console)].branch, console[Len(console)].from, console[Len(console)].to>>
           \in StoredTriples(store)

\* The branch entries of the store, one per (report, position).
StoredEntries(reports) ==
    UNION {{<<r, k>> : k \in 1..Len(reports[r].branches)} : r \in 1..Len(reports)}

\* C3: as long as no run has used the force option, no two branch entries
\* of the store, in one report or in two, have the same (branch, from, to).
C3_NoDuplicateTriplesWithoutForce ==
    ~everForced =>
        \A x, y \in StoredEntries(store) :
            LET e == store[x[1]].branches[x[2]]
                f == store[y[1]].branches[y[2]]
            IN (e.branch = f.branch /\ e.from = f.from /\ e.to = f.to) => x = y

\* Two runs without force have each stored a report, and the store holds
\* entries of the same branch.
C3_Witness ==
    /\ ~everForced /\ runs = 2 /\ Len(store) = 2
    /\ store[1].branches[1].branch = store[2].branches[1].branch

\* A response that fails parsing or validation as heuristics.
HeuristicsResponseFails(o) ==
    /\ o.throws = "none"
    /\ \/ o.fence = "plain"
       \/ o.body.json # "object"
       \/ ~(o.body.ignore_patterns_isArray /\ o.body.file_groups_isArray)

\* C7: updateHeuristics never makes more than 3 provider calls, and when it
\* returns on a response that fails parsing or validation it has made
\* exactly 3 calls and gives back the old heuristics unchanged, which
\* runAnalysis writes to the heuristics file.
C7_ThreeFailuresReturnOldHeuristics ==
    [][/\ pc' \in {"updateHeuristics", "updateHeuristics.response"} => nCalls' <= 3
       /\ (/\ pc = "updateHeuristics.response"
           /\ pc' # "updateHeuristics"
           /\ HeuristicsResponseFails(lastCall.outcome))
              => /\ nCalls = 3
                 /\ heuristicsFile' = [exists |-> TRUE, content |-> oldHeuristics]
                 /\ (pc' = "getGitDiff" => heuristics' = oldHeuristics)]_vars

\* The third call of updateHeuristics has been answered by a response that
\* fails, and the old heuristics hold an ignore pattern and a file group.
C7_Witness ==
    /\ pc = "updateHeuristics.response"
    /\ nCalls = 3
    /\ HeuristicsResponseFails(lastCall.outcome)
    /\ oldHeuristics.ignore_patterns # <<>> /\ oldHeuristics.file_groups # <<>>

\* A response that parses as a JSON object.
ParsesAsObject(o) == o.throws = "none" /\ o.fence # "plain" /\ o.body.json = "object"

\* A response summarizeEntireDiff returns: JSON with a highLevelSummary that
\* is not empty and a list fileSummaries.
AnalysisResponseGood(o) ==
    /\ ParsesAsObject(o)
    /\ o.body.hasSummary /\ o.body.highLevelSummary # ""
    /\ o.body.fileSummaries_isArray

\* summarizeEntireDiff has returned and the batch loop goes on: the next
\* batch when there is one, the final summary after the last.
BatchLoopGoesOn ==
    IF batchIdx < Len(batches)
    THEN pc' = "getGitDiff" /\ batchIdx' = batchIdx + 1
    ELSE pc' = "createFinalSummary"

\* C8: for one batch summarizeEntireDiff makes at most 3 provider calls,
\* returns at the first response that parses as JSON with a non-empty
\* highLevelSummary and a list fileSummaries, whose file summaries runAnalysis
\* adds, and tries again on any other response until the third; after the
\* third failed attempt it returns null, which adds no file summaries, and
\* the run goes on with the next batch or the final summary.
C8_SummarizeEntireDiffRetries ==
    [][/\ pc' \in {"summarizeEntireDiff", "summarizeEntireDiff.response"} => nCalls' <= 3
       /\ pc = "summarizeEntireDiff.response" =>
            IF AnalysisResponseGood(lastCall.outcome)
            THEN /\ allFileSummaries' = allFileSummaries \o lastCall.outcome.body.fileSummaries
                 /\ BatchLoopGoesOn
            ELSE IF nCalls < 3
            THEN pc' = "summarizeEntireDiff" /\ allFileSummaries' = allFileSummaries
            ELSE /\ allFileSummaries' = allFileSummaries
                 /\ BatchLoopGoesOn
                 /\ branchSummaries' = branchSummaries]_vars

\* The third call for the first of two batches has failed.
C8_Witness ==
    /\ pc = "summarizeEntireDiff.response"
    /\ nCalls = 3
    /\ ~AnalysisResponseGood(lastCall.outcome)
    /\ Len(batches) = 2 /\ batchIdx = 1

\* C8 as stated: every response that parses as JSON with a highLevelSummary
\* field and a list fileSummaries makes summarizeEntireDiff return it.
C8_AsStated ==
    [][(/\ pc = "summarizeEntireDiff.response"
        /\ ParsesAsObject(lastCall.outcome)
        /\ lastCall.outcome.body.hasSummary
        /\ lastCall.outcome.body.fileSummaries_isArray)
           => /\ allFileSummaries' = allFileSummaries \o lastCall.outcome.body.fileSummaries
              /\ BatchLoopGoesOn]_vars

\* The provider the pipeline of runAnalysis calls, and the other one.
PrimaryProvider == "gemini"
SecondaryProvider == "gpt"

\* The call made last is one of the summarization pipeline and failed with
\* a context-length error.
ContextLengthFailure ==
    /\ lastCall.fn \in {"summarizeEntireDiff", "createFinalSummary"}
    /\ lastCall.provider = PrimaryProvider
    /\ lastCall.outcome.throws \in {"context_length_exceeded", "token_limit"}

\* C10: a call of the summarization pipeline that fails with a
\* context-length error is followed by one call of the secondary provider
\* with the same prompt, and by no call of the same provider.
C10_ContextLengthFallbackInPipeline ==
    [][(ContextLengthFailure /\ lastCall' # lastCall)
          => /\ lastCall'.provider = SecondaryProvider
             /\ lastCall'.prompt = lastCall.prompt]_vars

\* The call made last failed with a transport or authentication error of
\* the provider that is no context-length error.
TransportFailure == lastCall.outcome.throws = "network"

\* The run is still in progress after the step, with the branches it began
\* with and every branch entry it has pushed.
RunGoesOn ==
    /\ isAnalyzing' /\ pc' # "idle"
    /\ branches' = branches
    /\ Len(branchSummaries') >= Len(branchSummaries)
    /\ SubSeq(branchSummaries', 1, Len(branchSummaries)) = branchSummaries

StaticFallbackNarrative == "Could not generate a final high-level summary."

C12_MissingCredentialLeavesNoWork ==
    ~geminiApiKey => (store = <<>> /\ ~heuristicsFile.exists)

\* git diff from..to -- file, for a file the range changed: the diff of a.ts
\* is a large one, of several large hunks; the others are one short hunk.
FileDiffText(file) ==
    IF file = "a.ts" THEN Repeat(LargeHunk, 2 * LargeDiffHunks)
    ELSE <<"@", "@", "@", "@", NL, "x", NL>>

\* getGitDiff(from, to, ...files) when git succeeds: the diffs of the files
\* the commits of the range changed, in the order of the files.
GitDiffText(fr, t, files) ==
    LET changed == Range(FlatMapFiles(getCommitHistory(fr, t)))
    IN Concat([k \in 1..Len(files) |->
                  IF files[k] \in changed THEN FileDiffText(files[k]) ELSE <<>>])

\* The step is the provider call of summarizeEntireDiff for the current
\* batch: one call whose prompt holds the whole diff of the batch.
WholeBatchCall ==
    /\ pc = "summarizeEntireDiff"
    /\ pc' = "summarizeEntireDiff.response"
    /\ lastCall'.fn = "summarizeEntireDiff"

\* C13: in runAnalysis a batch is sent to the provider in one call only
\* when the estimate of its diff is below the length budget of the
\* configured model, whichever model is configured; a larger one goes
\* through the chunker instead.
C13_OversizedBatchNeverSentWhole ==
    [][WholeBatchCall =>
          \A model \in {"gpt-5", "GPT-4"} :
              estimateTokens(GitDiffText(from, to, batches[batchIdx]))
                  < getTokenLimitForModel(model)]_vars

\* The places of runAnalysis inside the loop over the batches of a branch.
InBatchLoop == pc \in {"getGitDiff", "summarizeEntireDiff", "summarizeEntireDiff.response"}

ProviderOps == {p \in pending : p.op = "callGeminiApi"}

\* The step starts a provider call.
ProviderCallStarts == ProviderOps' \ ProviderOps # {}

\* C16: in runAnalysis at most one provider call is outstanding. A provider
\* call and the read of a batch's diff start only when no operation is
\* outstanding; the loop moves to the next batch, one batch at a time, when
\* the call for the batch has settled or its diff was empty, and to the next
\* branch, one branch at a time, when no operation is outstanding after the
\* step. Operations are outstanding together only while Promise.all awaits
\* the reads of the diffs of the file summaries produced, and then they are
\* these reads alone.
C16_OneProviderCallAtATime ==
    [][/\ Cardinality(ProviderOps') <= 1
       /\ ProviderCallStarts
              => /\ pending = {}
                 /\ pc \in {"updateHeuristics", "summarizeEntireDiff", "createFinalSummary"}
                 /\ pending' = {ProviderOp(lastCall'.fn, lastCall'.prompt)}
       /\ pc = "getGitDiff" => pending = {} /\ pending' = {}
       /\ (InBatchLoop /\ batchIdx' # batchIdx)
              => /\ batchIdx' = batchIdx + 1 /\ batchIdx' <= Len(batches)
                 /\ pc \in {"getGitDiff", "summarizeEntireDiff.response"}
                 /\ pc' = "getGitDiff" /\ pending' = {}
       /\ (pc # "idle" /\ pc' # "idle" /\ branchIdx' # branchIdx)
              => branchIdx' = branchIdx + 1 /\ pending' = {}
       /\ Cardinality(pending') > 1
              => /\ pc' = "Promise.all"
                 /\ pending' = {DiffRead(k, allFileSummaries'[k].file) :
                                    k \in 1..Len(allFileSummaries')}
       /\ (pc = "Promise.all" /\ pc' # pc) => pending' = {}]_vars

\* Promise.all awaits the reads of the diffs of two file summaries of a
\* branch of two batches.
C16_Witness ==
    /\ pc = "Promise.all"
    /\ Cardinality(pending) = 2
    /\ Len(batches) = 2

\* The step is the top of the loop over the branches for a branch whose
\* reflog yields no sync point, or yields HEAD.
NoSyncPoint ==
    /\ pc = "branch" /\ branchIdx <= Len(branches)
    /\ sincePoint[branches[branchIdx]] \in {NoRef, head}

FirstRunMessage == "First run detected."

EmptyRange ==
    /\ pc = "branch" /\ branchIdx <= Len(branches)
    /\ sincePoint[branches[branchIdx]] > head

\* C21: for a branch whose range holds no commit, runAnalysis calls no
\* provider for heuristics and does not write the heuristics file: the
\* stored heuristics stay as they are, and the branch ends with the skip
\* message or with the message that there are no new changes.
C21_EmptyRangeKeepsHeuristics ==
    [][EmptyRange
          => /\ lastCall' = lastCall /\ nCalls' = 0 /\ pending' = {}
             /\ heuristicsFile' = heuristicsFile
             /\ pc' = "branch" /\ branchIdx' = branchIdx + 1
             /\ Logged /\ LastLogged.branch = branches[branchIdx]
             /\ LastLogged.msg \in {"No new changes found.", SkipMessage}
             /\ LastLogged.from = sincePoint[branches[branchIdx]]
             /\ branchSummaries' = branchSummaries]_vars

\* A branch whose range holds no commit has ended, in a run that found
\* stored heuristics with an ignore pattern.
C21_Witness ==
    /\ pc = "branch" /\ branchIdx = 2
    /\ sincePoint[branches[1]] > head
    /\ Len(console) = 1 /\ console[1].msg = "No new changes found."
    /\ heuristicsFile.exists /\ heuristicsFile.content.ignore_patterns # <<>>

\* C22: no step changes or removes a report of the store. A step adds at
\* most one report, at the end of a run that produced branch entries: the
\* report holds these entries, and its id is the timestamp of its creation,
\* which no report of the store has.
C22_StoredReportsNeverChange ==
    [][/\ Len(store') \in {Len(store), Len(store) + 1}
       /\ SubSeq(store', 1, Len(store)) = store
       /\ Len(store') = Len(store) + 1
              => /\ pc = "branch" /\ pc' = "idle"
                 /\ store'[Len(store')].id = clock
                 /\ store'[Len(store')].createdAt = clock
                 /\ store'[Len(store')].branches = branchSummaries
                 /\ branchSummaries # <<>>
                 /\ \A k \in 1..Len(store) : store[k].id # store'[Len(store')].id]_vars

\* Two runs have saved a report each, under two timestamps.
C22_Witness ==
    /\ runs = 2 /\ pc = "idle"
    /\ Len(store) = 2
    /\ store[1].id # store[2].id

\* The primary files of the branch being analyzed: the files of its batches.
PrimaryFilesOfBranch(bs) == UNION {Range(bs[i]) : i \in 1..Len(bs)}

\* C25: for a branch with 10 or fewer primary files runAnalysis makes one
\* batch of all the files, and createFinalSummary is not called.
C25_NoBatchingUpToTenFiles ==
    [][(/\ batches' # <<>>
        /\ Cardinality(PrimaryFilesOfBranch(batches')) <= TestBatchSize)
           => /\ Len(batches') = 1
              /\ pc' # "createFinalSummary"
              /\ lastCall'.fn # "createFinalSummary"]_vars

\* A run without force is at a branch whose (branch, from, to) the store
\* holds.
AtCachedBranch ==
    /\ pc # "idle" /\ ~options.force
    /\ from # NoRef
    /\ <<branches[branchIdx], from, to>> \in StoredTriples(store)

C29_SummariesNamePrimaryFilesOnce ==
    [][Len(branchSummaries') = Len(branchSummaries) + 1
          => LET e == branchSummaries'[Len(branchSummaries')]
                 named == [k \in 1..Len(e.summaries) |-> e.summaries[k].file]
             IN pc = "Promise.all"
                    => /\ Range(named) \subseteq PrimaryFilesOfBranch(batches)
                       /\ IsInjective(named)]_vars

\* The loop over the branches of a run has ended.
BranchesDone == pc = "branch" /\ branchIdx > Len(branches)

\* The run logged the skip message for the branch.
SkippedInRun(branch) ==
    \E k \in 1..Len(console) : console[k].branch = branch /\ console[k].msg = SkipMessage

\* The entries of the branch among the entries the run recorded.
EntriesOfBranch(entries, branch) == {k \in 1..Len(entries) : entries[k].branch = branch}

\* C30: when a run ends, each of its branches with a sync point was skipped
\* exactly when the run was without force and the store held the branch's
\* (branch, from, to); a skipped branch has no entry in the report of the
\* run, and a branch that was not skipped and whose range has commits has
\* one entry, with its range, in the report that the run saves.
C30_SkipDecidedPerBranch ==
    [][(BranchesDone /\ pc' = "idle") =>
          \A i \in 1..Len(branches) :
              LET branch == branches[i]
                  fr == FromRef(sincePoint[branch], head)
                  stored == <<branch, fr, head>> \in StoredTriples(store)
              IN fr # NoRef =>
                    /\ SkippedInRun(branch) <=> (~options.force /\ stored)
                    /\ SkippedInRun(branch)
                           => EntriesOfBranch(branchSummaries, branch) = {}
                    /\ (~SkippedInRun(branch) /\ Len(getCommitHistory(fr, head)) > 0)
                           => /\ Len(store') = Len(store) + 1
                              /\ store'[Len(store')].branches = branchSummaries
                              /\ \E k \in EntriesOfBranch(branchSummaries, branch) :
                                     /\ EntriesOfBranch(branchSummaries, branch) = {k}
                                     /\ branchSummaries[k].from = fr
                                     /\ branchSummaries[k].to = head]_vars

\* A run without force over main and feat ends: main, whose triple an
\* earlier run stored, was skipped, and feat, whose triple was not stored,
\* has an entry.
C30_Witness ==
    /\ BranchesDone /\ ~options.force
    /\ branches = <<mainBranch, "feat">>
    /\ SkippedInRun(mainBranch)
    /\ <<mainBranch, FromRef(sincePoint[mainBranch], head), head>> \in StoredTriples(store)
    /\ ~SkippedInRun("feat")
    /\ EntriesOfBranch(branchSummaries, "feat") # {}

\* A call that throws, or whose response fails parsing or validation.
HeuristicsCallFails(o) == o.throws # "none" \/ HeuristicsResponseFails(o)

\* C31: whatever the provider answers to a call of updateHeuristics (a
\* valid response, JSON of the wrong shape, text that does not parse, a
\* thrown error), the run goes on: updateHeuristics calls again, having
\* made fewer than 3 calls, or returns after at most 3 calls, and what it
\* returns is the response when the response passed validation and the
\* old heuristics otherwise.
C31_UpdateHeuristicsNeverThrows ==
    [][pc = "updateHeuristics.response"
          => /\ nCalls \in 1..3
             /\ isAnalyzing'
             /\ pc' \in {"updateHeuristics", "getGitDiff", "branch"}
             /\ pc' = "updateHeuristics"
                    => nCalls < 3 /\ HeuristicsCallFails(lastCall.outcome)
             /\ pc' # "updateHeuristics"
                    => /\ heuristicsFile'.exists
                       /\ heuristicsFile'.content =
                              IF HeuristicsCallFails(lastCall.outcome)
                              THEN oldHeuristics
                              ELSE [ignore_patterns |-> lastCall.outcome.body.ignore_patterns,
                                    file_groups |-> lastCall.outcome.body.file_groups]
                       /\ (pc' = "getGitDiff" => heuristics' = heuristicsFile'.content)]_vars

\* The provider has thrown an error on the third call of updateHeuristics,
\* after a response of the wrong shape or one that does not parse.
C31_Witness ==
    /\ pc = "updateHeuristics.response"
    /\ nCalls = 3
    /\ lastCall.outcome.throws = "network"

\* The warnings of getGitDiff in the log.
DiffWarnings(log) == Cardinality({k \in 1..Len(log) : log[k].msg = DiffWarning})

\* The summaries of an entry that have no diff.
WithoutDiff(entry) == {k \in 1..Len(entry.summaries) : entry.summaries[k].diff = "undefined"}

\* C33: when the read of a batch's diff fails, getGitDiff warns and returns
\* null, no provider call is made for the batch and no summary is added,
\* and the run goes on with the next batch or, after the last batch, with
\* createFinalSummary; the final summary is then asked for and the entry is
\* pushed with one summary for each file summary obtained, a summary whose
\* diff could not be read having no diff; the report with the entry is
\* saved when the run ends.
C33_FailedDiffReadIsPassedOver ==
    [][/\ (pc = "getGitDiff" /\ Logged /\ LastLogged.msg = DiffWarning)
          => /\ ~ProviderCallStarts /\ nCalls' = 0
             /\ allFileSummaries' = allFileSummaries
             /\ isAnalyzing'
             /\ IF batchIdx < Len(batches)
                THEN pc' = "getGitDiff" /\ batchIdx' = batchIdx + 1
                ELSE pc' = "createFinalSummary"
       /\ pc = "createFinalSummary"
          => ProviderCallStarts /\ lastCall'.fn = "createFinalSummary"
       /\ pc = "createFinalSummary.response" => pc' = "Promise.all"
       /\ pc = "Promise.all"
          => /\ Len(branchSummaries') = Len(branchSummaries) + 1
             /\ LET e == branchSummaries'[Len(branchSummaries')]
                IN /\ Len(e.summaries) = Len(allFileSummaries)
                   /\ \A k \in 1..Len(allFileSummaries) :
                          /\ e.summaries[k].file = allFileSummaries[k].file
                          /\ e.summaries[k].summary = allFileSummaries[k].summary
                          /\ e.summaries[k].diff \in {"diff", "undefined"}
                   /\ DiffWarnings(console') = DiffWarnings(console) + Cardinality(WithoutDiff(e))
       /\ (BranchesDone /\ pc' = "idle" /\ branchSummaries # <<>>)
          => /\ Len(store') = Len(store) + 1
             /\ store'[Len(store')].branches = branchSummaries]_vars

\* A branch has been analyzed in which the read of one batch's diff failed
\* and, when the diffs were attached, the read of one file's diff: the log
\* has two warnings and the entry one summary without a diff.
C33_Witness ==
    /\ pc = "branch" /\ branchIdx = 2
    /\ DiffWarnings(console) = 2
    /\ Len(branchSummaries) = 1
    /\ Cardinality(WithoutDiff(branchSummaries[1])) = 1

\* The response to the call of updateHeuristics made last passes
\* validation.
HeuristicsResponseValid ==
    /\ pc = "updateHeuristics.response"
    /\ ~HeuristicsCallFails(lastCall.outcome)

\* C40: when the response passes validation, updateHeuristics returns the
\* lists of the response as they are, on whichever attempt, and runAnalysis
\* writes them over the stored heuristics and uses them for the branch: an
\* ignore pattern or a file group of the old heuristics is in the result
\* exactly when the response holds it.
C40_ValidResponseReplacesHeuristics ==
    [][HeuristicsResponseValid
          => LET body == lastCall.outcome.body
             IN /\ pc' # "updateHeuristics"
                /\ heuristicsFile'.exists
                /\ heuristicsFile'.content.ignore_patterns = body.ignore_patterns
                /\ heuristicsFile'.content.file_groups = body.file_groups
                /\ \A p \in Range(oldHeuristics.ignore_patterns) :
                       p \in Range(heuristicsFile'.content.ignore_patterns)
                           <=> p \in Range(body.ignore_patterns)
                /\ \A g \in Range(oldHeuristics.file_groups) :
                       g \in Range(heuristicsFile'.content.file_groups)
                           <=> g \in Range(body.file_groups)
                /\ pc' = "getGitDiff" => heuristics' = heuristicsFile'.content]_vars

\* The stored heuristics hold an ignore pattern and a file group, and the
\* provider has answered with a valid object whose two lists are empty.
C40_Witness ==
    /\ HeuristicsResponseValid
    /\ heuristicsFile.exists /\ heuristicsFile.content = oldHeuristics
    /\ oldHeuristics.ignore_patterns # <<>> /\ oldHeuristics.file_groups # <<>>
    /\ lastCall.outcome.body.ignore_patterns = <<>>
    /\ lastCall.outcome.body.file_groups = <<>>

(***************************************************************************)
(* Claims about updateHeuristics on any JSON response (SpecHeuristics).    *)
(***************************************************************************)
\* The persisted shape {ignore_patterns: [string], file_groups: [[string]]}.
IsListOfStrings(items) == \A k \in 1..Len(items) : items[k].json = "string"

PersistedShape(h) ==
    /\ IsListOfStrings(h.ignore_patterns)
    /\ \A k \in 1..Len(h.file_groups) :
           /\ h.file_groups[k].json = "array"
           /\ IsListOfStrings(h.file_groups[k].items)

\* C32: the heuristics that updateHeuristics returns and that are written
\* to the heuristics file have the persisted shape, ignore_patterns a list
\* of strings and file_groups a list of lists of strings, and batch
\* planning iterates every group without an error.
C32_HeuristicsKeepPersistedShape ==
    /\ heuristicsFile.exists => PersistedShape(heuristicsFile.content)
    /\ pc \in {"createSmartBatches", "return"} => PersistedShape(ret)
    /\ pc # "TypeError"

(***************************************************************************)
(* Claims about doAnalysis invoked during a run (SpecReentry).             *)
(***************************************************************************)
\* The step is the start of an execution of runAnalysis: the loop over the
\* branches is entered with nothing logged.
RunAnalysisBegins == pc' = "branch" /\ branchIdx' = 1 /\ console' = <<>>

\* The step is a doAnalysis invoked while the in-progress flag is set.
InvokedWhileAnalyzing == isAnalyzing /\ Logged /\ LastLogged.msg = InProgressMessage

\* C17: an execution of runAnalysis begins only when none is in progress and
\* the flag is not set, and the flag is set exactly while one is in progress.
\* A doAnalysis invoked while the flag is set logs and returns: it starts no
\* execution, and leaves the flag and the execution in progress as they are.
C17_NoOverlappingRuns ==
    [][/\ RunAnalysisBegins => ~isAnalyzing /\ pc = "idle" /\ isAnalyzing'
       /\ isAnalyzing' <=> pc' # "idle"
       /\ (isAnalyzing /\ isAnalyzing')
              => branches' = branches /\ options' = options /\ runs' = runs
       /\ InvokedWhileAnalyzing
              => /\ ~RunAnalysisBegins
                 /\ isAnalyzing'
                 /\ UNCHANGED <<pc, gitVars, diskVars, loopVars, processVars, lastCall,
                                nCalls, pending>>]_vars

\* doAnalysis was invoked while a provider call of the run was outstanding;
\* the run is in progress.
C17_Witness ==
    /\ isAnalyzing
    /\ Rejected(console) = 1
    /\ pending # {}
    /\ pc = "summarizeEntireDiff.response"

(***************************************************************************)
(* Claims about runs that end with an error (SpecThrows).                  *)
(***************************************************************************)
\* The step is the end of a run: runAnalysis returns, or throws.
RunEnds == pc # "idle" /\ pc' = "idle"

\* C37: the in-progress flag is set exactly while a runAnalysis started by
\* doAnalysis is executing: doAnalysis sets it, when no run is in progress,
\* as it starts the run; it stays set until the run ends; and it is reset
\* when the run ends, whether runAnalysis returned or threw, so that the
\* flag is not set between runs and doAnalysis can start a run again.
C37_FlagSetExactlyDuringRun ==
    [][/\ (pc = "idle" /\ pc' # "idle") => ~isAnalyzing /\ isAnalyzing'
       /\ (pc # "idle" /\ pc' # "idle") => isAnalyzing /\ isAnalyzing'
       /\ RunEnds => /\ isAnalyzing /\ ~isAnalyzing'
                     /\ runs' = runs + 1
                     /\ pending' = {}
       /\ RunEnds => /\ Logged
                     /\ LastLogged.msg = ErrorMessage => store' = store
       /\ (pc = "idle" /\ pc' = "idle") => ~isAnalyzing /\ ~isAnalyzing']_vars

\* The first run threw after it had pushed the entry of a branch; the flag
\* is reset, and no report was written.
C37_Witness ==
    /\ pc = "idle" /\ runs = 1
    /\ ~isAnalyzing
    /\ console # <<>> /\ console[Len(console)].msg = ErrorMessage
    /\ store = <<>>
    /\ heuristicsFile.exists

ContainsAsSubstring(path, pattern) ==
    \E i \in 0..Len(Chars(path)) : \E j \in i..Len(Chars(path)) :
        SubSeq(Chars(path), i + 1, j) = Chars(pattern)

\* The path contains a base lockfile pattern or one of the ignore patterns
\* of the call.
MatchesNoisyPattern(path) ==
    \/ \E pattern \in {"package-lock.json", "yarn.lock"} : ContainsAsSubstring(path, pattern)
    \/ \E k \in 1..Len(call.extraIgnorePatterns) :
           ContainsAsSubstring(path, call.extraIgnorePatterns[k])

\* The places of a list that hold the path.
PlacesOf(path, list) == {k \in 1..Len(list) : list[k] = path}

\* C20: getChangedFiles puts a path in noisyFiles exactly when the path
\* contains a base lockfile pattern or an ignore pattern of the call, and in
\* primaryFiles otherwise: every occurrence of a path of the input is in
\* one of the two lists and not in the other, and the lists hold nothing
\* else.
C20_NoisyIffMatchesPattern ==
    (pc = "return" /\ call.fn = "getChangedFiles")
        => /\ \A path \in PathPool :
                  /\ Cardinality(PlacesOf(path, ret.noisyFiles)) =
                         IF MatchesNoisyPattern(path)
                         THEN Cardinality(PlacesOf(path, call.allFiles)) ELSE 0
                  /\ Cardinality(PlacesOf(path, ret.primaryFiles)) =
                         IF MatchesNoisyPattern(path)
                         THEN 0 ELSE Cardinality(PlacesOf(path, call.allFiles))
           /\ Len(ret.noisyFiles) + Len(ret.primaryFiles) = Len(call.allFiles)

\* A path that holds a lockfile pattern after other characters went to
\* noisyFiles, a path that matches no pattern to primaryFiles, and a path
\* that matches an ignore pattern of the heuristics to noisyFiles.
C20_Witness ==
    /\ pc = "return" /\ call.fn = "getChangedFiles"
    /\ call.allFiles = <<"web/yarn.lock", "a.ts", "dist/x.js">>
    /\ call.extraIgnorePatterns = <<"dist/">>
    /\ ret.noisyFiles = <<"web/yarn.lock", "dist/x.js">>
    /\ ret.primaryFiles = <<"a.ts">>

(***************************************************************************)
(* Claims about getSincePointFromReflog (SpecReflog).                      *)
(***************************************************************************)
\* The place in the reflog, newest entry first, of the most recent entry
\* that records a pull.
LastPull(reflog) ==
    CHOOSE k \in 1..Len(reflog) :
        /\ reflog[k].message = PullMessage
        /\ \A j \in 1..(k - 1) : reflog[j].message # PullMessage

\* C18: when the reflog read holds an entry that records a pull, the
\* function returns a ref, not null, and the ref is the commit of the entry
\* that precedes the most recent pull entry, the one before the pull, and
\* not the commit the pull entry itself carries.
C18_SincePointPrecedesLastPull ==
    (/\ pc = "return" /\ call.fn = "getSincePointFromReflog"
     /\ ~call.gitFails
     /\ \E k \in 1..Len(call.reflog) : call.reflog[k].message = PullMessage)
        => /\ ret # NoRef
           /\ LastPull(call.reflog) < Len(call.reflog)
                  => ret = call.reflog[LastPull(call.reflog) + 1].hash

(***************************************************************************)
(* Claims about summarizeChanges (SpecSummarize).                          *)
(***************************************************************************)
MakeApiCallEnds ==
    /\ pc \in {"makeApiCall.primary", "makeApiCall.secondary"}
    /\ pc' \in {"return", "thrown", "makeApiCall"}

\* C9: makeApiCall makes at most two provider calls for a prompt. A second
\* call is made only after the first failed with a context-length error, and
\* it goes to the other provider with the identical prompt; a first call
\* that failed with a context-length error is always followed by it; and
\* after the second call makeApiCall ends with that call's text or error.
C9_OneFallbackCallWithSamePrompt ==
    [][/\ nCalls' <= 2
       /\ (nCalls = 1 /\ nCalls' = 2)
             => /\ lastCall.outcome.throws \in {"context_length_exceeded", "token_limit"}
                /\ lastCall'.provider # lastCall.provider
                /\ lastCall'.provider \in {"gemini", "gpt"}
                /\ lastCall'.prompt = lastCall.prompt
       /\ (/\ lastCall.fn = "makeApiCall" /\ nCalls = 1
           /\ lastCall.outcome.throws \in {"context_length_exceeded", "token_limit"}
           /\ (lastCall' # lastCall \/ MakeApiCallEnds))
             => nCalls' = 2
       /\ (pc = "makeApiCall.secondary")
             => /\ MakeApiCallEnds
                /\ lastCall' = lastCall
                /\ IF lastCall.outcome.throws = "none"
                   THEN \/ pc' = "return" /\ ret' = lastCall.outcome.body
                        \/ pc' = "makeApiCall"
                              /\ chunkSummaries' = Append(chunkSummaries, lastCall.outcome.body)
                   ELSE pc' = "thrown" /\ ret' = [error |-> lastCall.outcome.throws]]_vars

\* The fallback call of a summary prompt has itself failed with a
\* context-length error, and summarizeChanges has thrown it after two calls.
C9_Witness ==
    /\ pc = "thrown"
    /\ nCalls = 2
    /\ lastCall.provider = "gemini"
    /\ lastCall.outcome.throws = "token_limit"
    /\ ret = [error |-> "token_limit"]


(***************************************************************************)
(* Claims about the map-reduce path of summarizeChanges (SpecTripleLimit). *)
(***************************************************************************)
\* The estimate of the diff is 3 times the limit of the model.
TripleLimitCall ==
    /\ call.fn = "summarizeChanges"
    /\ estimateTokens(Unpack(call.diff)) = 3 * getTokenLimitForModel(call.model)

\* The places of a text, after its start, where a line begins that starts
\* with @@ and ends with @@: the places where a further hunk begins.
LaterHunkStarts(text) ==
    {q \in 2..(Len(text) - 3) :
        /\ IsLineTerminator(text[q - 1])
        /\ text[q] = "@" /\ text[q + 1] = "@"
        /\ \E e \in (q + 3)..Len(text) :
               /\ text[e - 1] = "@" /\ text[e] = "@"
               /\ e = Len(text) \/ IsLineTerminator(text[e + 1])
               /\ \A i \in q..e : ~IsLineTerminator(text[i])}

\* The step is a call of makeApiCall: the call of its primary provider.
MakeApiCallBegins == pc = "makeApiCall" /\ pc' = "makeApiCall.primary"

\* makeApiCall returns the text of its last provider call.
MakeApiCallReturnsText ==
    /\ pc \in {"makeApiCall.primary", "makeApiCall.secondary"}
    /\ lastCall.outcome.throws = "none"

\* C35: summarizeChanges never ends by throwing a context-length error,
\* whatever the primary and the fallback provider answer.
C35_NoContextLengthErrorThrown ==
    (call.fn = "summarizeChanges" /\ pc = "thrown") => ~isContextLengthError(ret.error)

\* C36: the first prompt of summarizeChanges is the prompt of the whole
\* diff exactly when the estimate of the diff does not exceed the limit of
\* the model, a diff whose estimate equals the limit included; otherwise it
\* is the prompt of the first chunk.
C36_DirectCallUnlessEstimateExceedsLimit ==
    [][(/\ call.fn = "summarizeChanges"
        /\ MakeApiCallBegins
        /\ chunkIdx = 1 /\ chunkSummaries = <<>>)
          => LET diffTokens == estimateTokens(Unpack(call.diff))
                 tokenLimit == getTokenLimitForModel(call.model)
             IN IF diffTokens <= tokenLimit
                THEN lastCall'.prompt = SummaryPrompt(call.fileName, call.branchName, call.diff)
                ELSE lastCall'.prompt[1] = "chunk"]_vars

\* summarizeChanges is on its map-reduce path, at a chunk or at the reduce.
MapReducePath == call.fn = "summarizeChanges" /\ pc # "summarizeChanges" /\ ~FitsModel
AtChunk == MapReducePath /\ chunkIdx <= Len(chunks)
AtReduce == MapReducePath /\ chunkIdx > Len(chunks)

\* The step is a provider call, of the primary or of the fallback provider.
ProviderIsCalled == pc' \in {"makeApiCall.primary", "makeApiCall.secondary"} /\ pc' # pc

\* The fallback warnings logged so far: the provider calls that failed with
\* a context-length error and were followed by the fallback call.
FallbackWarnings == {k \in 1..Len(console) : console[k].msg = FallbackWarning}

\* C34: on the map-reduce path makeApiCall is called for each chunk in
\* chunk order, one call at a time, each with the prompt of its chunk; a
\* call of makeApiCall is one provider call, or two when the first fails
\* with a context-length error; the reduce call is made once, after the
\* summary of every chunk has been pushed; and when makeApiCall throws for
\* a chunk, summarizeChanges throws and no reduce call is made.
C34_ChunksInOrderThenReduce ==
    [][/\ (MapReducePath /\ MakeApiCallBegins)
          => /\ Len(chunkSummaries) = chunkIdx - 1
             /\ chunkIdx <= Len(chunks) + 1
             /\ lastCall'.prompt =
                    IF chunkIdx <= Len(chunks)
                    THEN ChunkPrompt(call.fileName, chunks[chunkIdx])
                    ELSE ReducePrompt(call.fileName, chunkSummaries)
       /\ (MapReducePath /\ ProviderIsCalled)
          => /\ pc \in {"makeApiCall", "makeApiCall.fallback"}
             /\ pc = "makeApiCall.fallback"
                    => /\ lastCall'.prompt = lastCall.prompt
                       /\ isContextLengthError(lastCall.outcome.throws)
                       /\ nCalls' = 2
       /\ (AtChunk /\ pc \in {"makeApiCall.primary", "makeApiCall.secondary"})
          => IF lastCall.outcome.throws = "none"
             THEN /\ chunkSummaries' = Append(chunkSummaries, lastCall.outcome.body)
                  /\ chunkIdx' = chunkIdx + 1
                  /\ pc' = "makeApiCall"
             ELSE IF pc = "makeApiCall.primary" /\ isContextLengthError(lastCall.outcome.throws)
             THEN pc' = "makeApiCall.fallback" /\ chunkIdx' = chunkIdx
             ELSE pc' = "thrown" /\ chunkIdx' = chunkIdx
       /\ (MapReducePath /\ pc = "thrown") => pc' = "thrown" /\ lastCall' = lastCall
       /\ (AtReduce /\ pc' = "makeApiCall.primary") => Len(chunkSummaries) = Len(chunks)
       /\ (AtReduce /\ pc' = "return") => lastCall.prompt[1] = "reduce"]_vars

\* The first chunk's primary call failed with a context-length error, the
\* fallback call gave its summary, and the reduce call has returned.
C34_Witness ==
    /\ MapReducePath /\ pc = "return"
    /\ Len(chunks) = 2 /\ Len(chunkSummaries) = 2
    /\ FallbackWarnings # {}
    /\ lastCall.prompt = ReducePrompt(call.fileName, chunkSummaries)
    /\ nCalls = 1

\* C34 as stated: each chunk is summarized by one provider call, and the
\* reduce call is made only when no provider call of a chunk has failed.
C34_AsStated ==
    [][/\ (AtChunk /\ ProviderIsCalled) => pc = "makeApiCall"
       /\ (AtReduce /\ MakeApiCallBegins) => FallbackWarnings = {}]_vars

\* C14: for a diff whose estimate is 3 times the limit of a small-budget
\* model, the map-reduce path splits a diff of at least two hunks (pieces
\* that start at a line which starts and ends with @@) into at least 2
\* chunks and a diff of a single hunk into one chunk. makeApiCall is called
\* for each chunk in order, each text it returns is pushed as that chunk's
\* summary, and after the last chunk it is called once with the reduce
\* prompt of all chunk summaries, whose text is the result; when a call
\* throws, summarizeChanges throws and makes no further call.
C14_MapReduceChunksThenOneReduce ==
    [][TripleLimitCall =>
        /\ pc = "summarizeChanges"
              => /\ Len(chunks') >= 1
                 /\ Len(chunks') >= 2 <=> LaterHunkStarts(Unpack(call.diff)) # {}
                 /\ chunkIdx' = 1 /\ chunkSummaries' = <<>>
        /\ MakeApiCallBegins
              => /\ Len(chunkSummaries) = chunkIdx - 1
                 /\ lastCall'.prompt =
                        IF chunkIdx <= Len(chunks)
                        THEN ChunkPrompt(call.fileName, chunks[chunkIdx])
                        ELSE ReducePrompt(call.fileName, chunkSummaries)
                 /\ chunkIdx <= Len(chunks) + 1
        /\ (MakeApiCallReturnsText /\ chunkIdx <= Len(chunks))
              => /\ chunkSummaries' = Append(chunkSummaries, lastCall.outcome.body)
                 /\ chunkIdx' = chunkIdx + 1
                 /\ pc' = "makeApiCall"
        /\ (MakeApiCallReturnsText /\ chunkIdx > Len(chunks))
              => /\ pc' = "return" /\ ret' = lastCall.outcome.body
                 /\ Len(chunkSummaries) = Len(chunks)
        /\ pc' = "return" => lastCall.prompt = ReducePrompt(call.fileName, chunkSummaries)
        /\ pc \in {"return", "thrown"} => pc' = pc /\ lastCall' = lastCall
        /\ pc' = "thrown" => lastCall.outcome.throws # "none"]_vars

\* The reduce call of a diff split into three chunks has returned.
C14_Witness ==
    /\ TripleLimitCall
    /\ pc = "return"
    /\ Len(chunks) = 3 /\ Len(chunkSummaries) = 3
    /\ lastCall.prompt = ReducePrompt(call.fileName, chunkSummaries)

\* C14 as stated: any diff whose estimate is 3 times the limit of the model
\* is split into at least 2 chunks.
C14_AsStated ==
    (TripleLimitCall /\ pc # "summarizeChanges") => Len(chunks) >= 2

==============================================================================
